---- MODULE Spec2Model ----
(***************************************************************************)
(* Model of the recommendation generator of PG-genetics                    *)
(* (src/app/admin/generator/ui.tsx, GeneratorClient), of the editor        *)
(* (src/app/admin/edit/ui.tsx, EditPositionsClient) and of the add screen  *)
(* (src/app/login/page.tsx) as far as they write the rows the generator    *)
(* reads.                                                                  *)
(*                                                                         *)
(* State: the rows of the store, the generator form (patient data,         *)
(* gene/mutation entries, cancer-gene entries), the local variables of an  *)
(* in-flight generate() call, its outputs (report, error, busy flag), and  *)
(* the editor (picks, drafts, handler calls in flight with the statements  *)
(* they have still to send).                                               *)
(*                                                                         *)
(* Encoding of JavaScript values:                                          *)
(*   - a nullable string (sex, ids, error) is a string, null is NULL;      *)
(*   - a nullable number or list (age_min, report) is a sequence of length *)
(*     at most one: Null is null, Some(v) is the value v;                  *)
(*   - a nullable boolean (cancerPositive) is "true", "false" or NULL.     *)
(* Free-text columns that no branch of generate() reads (gene name,        *)
(* pathogenicity, risk text, recommendation text) are left out of rows.    *)
(***************************************************************************)
EXTENDS Integers, Sequences, FiniteSets, TLC

VARIABLES
    db,                 \* the store: one sequence of rows per table
    failing,            \* the reads of the store that answer with an error
    patientAge,         \* text of the age input
    patientSex,         \* "M", "F" or NULL
    cancerPositive,     \* "true", "false" or NULL
    cancerLinkedToGene, \* "true", "false" or NULL
    entries,            \* gene entries of the form
    cancerGeneEntries,  \* cancer-gene entries of the form
    report,             \* Null or Some(list of boxes)
    error,              \* NULL or the message shown
    busy,               \* busy.generate
    pc,                 \* position of the generate() call in flight
    validated,          \* generate(): the validated inputs (locals)
    fetched,            \* generate(): the rows read so far (locals)
    pending,            \* generate(): the reads issued and not yet returned
    inflight,           \* the generate() calls suspended at an await
    recorded,           \* the reports of the first generations, as shown
    editor              \* the editor: its picks, its calls in flight, its last event

vars == <<db, failing, patientAge, patientSex, cancerPositive,
          cancerLinkedToGene, entries, cancerGeneEntries, report, error,
          busy, pc, validated, fetched, pending, inflight, recorded, editor>>

formVars == <<patientAge, patientSex, cancerPositive, cancerLinkedToGene>>

----------------------------------------------------------------------------
(* Bounds *)

\* patient ages and age_min values range over 0..MaxAge
MaxAge == 2

\* generate() calls that the model lets be suspended at the same time
MaxInflight == 2

\* the most rows the form holds (20 gene rows, 20 mutation rows per gene)
MaxRows == 2

\* the calls of editor handlers that one behaviour of the editor sessions
\* counts
MaxCalls == 2

----------------------------------------------------------------------------
(* JavaScript values *)

NULL == "null"
Null == <<>>
Some(v) == <<v>>
IsNull(x) == x = Null
Val(x) == x[1]

Range(s) == {s[i] : i \in 1..Len(s)}

\* Array.prototype.filter
Filter(s, P(_)) == SelectSeq(s, P)

\* Array.prototype.map
Map(s, f(_)) == [i \in 1..Len(s) |-> f(s[i])]

\* Array.from(new Set(s)): first occurrences, in order
Dedupe(s) ==
    LET keep == {i \in 1..Len(s) : \A j \in 1..(i - 1) : s[j] # s[i]}
        pos(i) == Cardinality({j \in keep : j < i}) + 1
    IN  [p \in 1..Cardinality(keep) |-> s[CHOOSE i \in keep : pos(i) = p]]

\* Array.prototype.flatMap over sequences of sequences
RECURSIVE Flatten(_)
Flatten(ss) == IF ss = <<>> THEN <<>> ELSE Head(ss) \o Flatten(Tail(ss))

\* Array.prototype.sort with a comparator (a, b) => key(a) - key(b): the
\* sort is stable, K[i] is the key of s[i]
StableSortByKey(s, K) ==
    LET rank(i) == Cardinality({j \in 1..Len(s) :
                        K[j] < K[i] \/ (K[j] = K[i] /\ j < i)}) + 1
    IN  [p \in 1..Len(s) |-> s[CHOOSE i \in 1..Len(s) : rank(i) = p]]

\* String.prototype.trim on the texts of the model
Trim(s) == IF s = " " THEN "" ELSE s

\* startsWithCI on the texts of the model, normalize being trim and lower
\* case: the labels are the gene symbols and the mutation texts, which all
\* start with "c."
startsWithCI(value, prefix) ==
    LET normalize(t) == CASE Trim(t) = "B" -> "b"
                          [] Trim(t) = "A" -> "a"
                          [] OTHER -> Trim(t)
    IN  \/ normalize(prefix) = ""
        \/ normalize(value) = normalize(prefix)
        \/ normalize(prefix) = "c." /\ value \in {"c.1A>G", "c.2C>T", "c.3del"}

\* Number(patientAge): the age input keeps digits only, and Number('') is 0
NumberOf(t) == IF t.kind = "empty" THEN 0 ELSE t.n

\* String.prototype.localeCompare on one-letter symbols: letters compare
\* alphabetically first, lower case before upper case on a tie
CollationKey(sym) ==
    CASE sym = "a" -> 1
      [] sym = "A" -> 2
      [] sym = "b" -> 3
      [] sym = "B" -> 4
      [] sym = "c" -> 5
      [] sym = "C" -> 6

----------------------------------------------------------------------------
(* Pure functions of generator/ui.tsx *)

\* variant: the literal 'ANY' is not accepted
sexMatches_NullOnly(dbSex, sex) == dbSex = NULL \/ dbSex = sex

sexMatches(dbSex, sex) == dbSex = NULL \/ dbSex = "ANY" \/ dbSex = sex

uniqById(rows) ==
    LET keep == {i \in 1..Len(rows) : \A j \in 1..(i - 1) : rows[j].id # rows[i].id}
        pos(i) == Cardinality({j \in keep : j < i}) + 1
    IN  [p \in 1..Cardinality(keep) |-> rows[CHOOSE i \in keep : pos(i) = p]]

----------------------------------------------------------------------------
(* validateAndGetActiveEntries *)

\* `e.geneText.trim() !== '' || e.geneId`
EntryActive(e) == Trim(e.geneText) # "" \/ e.geneId # NULL

\* `m.text.trim() !== '' || m.mutationId`
MutActive(m) == Trim(m.text) # "" \/ m.mutationId # NULL

ActiveMuts(e) == Filter(e.mutations, MutActive)

AgeOk(t) == NumberOf(t) >= 0

\* the rows of nextEntries after the loop over `active`
FlagMutation(m) ==
    IF MutActive(m) /\ m.mutationId = NULL
    THEN [m EXCEPT !.error = "Invalid input"]
    ELSE m

FlagEntry(e) ==
    IF ~EntryActive(e) THEN e
    ELSE LET err1 == IF e.geneId = NULL THEN "Invalid input" ELSE e.error
             err2 == IF ActiveMuts(e) = <<>> /\ err1 = NULL
                     THEN "Add at least 1 mutation" ELSE err1
         IN  [e EXCEPT !.error = err2, !.mutations = Map(e.mutations, FlagMutation)]

\* variant: an entry needs no mutation
EntryOk_NoMutationNeeded(e) ==
    /\ e.geneId # NULL
    /\ \A i \in 1..Len(e.mutations) :
          MutActive(e.mutations[i]) => e.mutations[i].mutationId # NULL

EntryOk(e) ==
    /\ e.geneId # NULL
    /\ ActiveMuts(e) # <<>>
    /\ \A i \in 1..Len(e.mutations) :
          MutActive(e.mutations[i]) => e.mutations[i].mutationId # NULL

CancerAsked == cancerPositive = "true" /\ cancerLinkedToGene = "true"

ActiveCancer == Filter(cancerGeneEntries, EntryActive)

FlagCancerEntry(e) ==
    IF CancerAsked /\ EntryActive(e) /\ e.geneId = NULL
    THEN [e EXCEPT !.error = "Invalid input"]
    ELSE e

\* the message left by the setError calls of the validation: the first one
\* that applies, the later ones are `prev ?? message`
ValidationMessage ==
    IF ~AgeOk(patientAge) THEN "Patient age must be a non-negative whole number."
    ELSE IF patientSex = NULL THEN "Pick patient sex."
    ELSE IF cancerPositive = NULL THEN "Pick whether the patient is cancer-positive."
    ELSE IF cancerPositive = "true" /\ cancerLinkedToGene = NULL
         THEN "Pick whether the cancer is linked to any gene."
    ELSE IF CancerAsked /\ ActiveCancer = <<>>
         THEN "Add at least 1 cancer-linked gene"
    ELSE NULL

ValidationOk ==
    /\ ValidationMessage = NULL
    /\ \A i \in 1..Len(entries) : EntryActive(entries[i]) => EntryOk(entries[i])
    /\ CancerAsked =>
          \A i \in 1..Len(ActiveCancer) : ActiveCancer[i].geneId # NULL

ActiveEntryOf(e) ==
    [geneId |-> e.geneId,
     geneText |-> e.geneText,
     mutationIds |-> LET picked(m) == m.mutationId # NULL
                         idOf(m) == m.mutationId
                     IN  Map(Filter(e.mutations, picked), idOf)]

\* variant: the picked cancer genes are not passed through a Set
CancerGeneIdsOf_NoSet ==
    LET idOf(e) == e.geneId
    IN  IF CancerAsked THEN Map(ActiveCancer, idOf) ELSE <<>>

CancerGeneIdsOf ==
    LET idOf(e) == e.geneId
    IN  IF CancerAsked THEN Dedupe(Map(ActiveCancer, idOf)) ELSE <<>>

\* variant: the active entries of the generation before are kept
ValidatedInputs_Accumulates ==
    [age |-> NumberOf(patientAge),
     sex |-> patientSex,
     cancerPositive |-> cancerPositive,
     cancerLinkedToGene |-> cancerLinkedToGene,
     activeEntries |-> validated.activeEntries
                           \o Map(Filter(entries, EntryActive), ActiveEntryOf),
     cancerGeneIds |-> CancerGeneIdsOf]

ValidatedInputs ==
    [age |-> NumberOf(patientAge),
     sex |-> patientSex,
     cancerPositive |-> cancerPositive,
     cancerLinkedToGene |-> cancerLinkedToGene,
     activeEntries |-> Map(Filter(entries, EntryActive), ActiveEntryOf),
     cancerGeneIds |-> CancerGeneIdsOf]

NoInputs ==
    [age |-> 0, sex |-> NULL, cancerPositive |-> NULL, cancerLinkedToGene |-> NULL,
     activeEntries |-> <<>>, cancerGeneIds |-> <<>>]

----------------------------------------------------------------------------
(* generate(): the locals computed from the validated inputs *)

includeCancer(v) ==
    v.cancerPositive = "true" /\ v.cancerLinkedToGene = "true" /\ Len(v.cancerGeneIds) > 0

mutationGeneIds(v) == LET idOf(e) == e.geneId IN Dedupe(Map(v.activeEntries, idOf))

cancerIdsForFetch(v) == IF includeCancer(v) THEN v.cancerGeneIds ELSE <<>>

allRelevantGeneIds(v) == Dedupe(mutationGeneIds(v) \o cancerIdsForFetch(v))

mutationIds(v) == LET idsOf(e) == e.mutationIds IN Dedupe(Flatten(Map(v.activeEntries, idsOf)))

----------------------------------------------------------------------------
(* generate(): the reads of the store *)

ReadNames ==
    <<"genes", "gene_mutations", "gene_risks", "recommendation_groups",
      "gene_mutation_groups", "gene_mutation_classes",
      "gene_mutation_group_overrides", "gene_cancer_recommendations">>

\* a read whose id list is empty is replaced by Promise.resolve({data: []})
Issued(name, v) ==
    CASE name = "genes" -> TRUE
      [] name \in {"gene_mutations", "gene_mutation_groups", "gene_mutation_classes",
                   "gene_mutation_group_overrides"} -> Len(mutationIds(v)) > 0
      [] name \in {"gene_risks", "recommendation_groups"} -> Len(mutationGeneIds(v)) > 0
      [] name = "gene_cancer_recommendations" -> Len(cancerIdsForFetch(v)) > 0

\* the reads of the Promise.all that go to the store
IssuedReads(v) == {name \in Range(ReadNames) : Issued(name, v)}

\* the error thrown after Promise.all: the `if (xRes.error) throw` lines are
\* in the order of ReadNames
FirstReadError_IgnoresRisks(v) ==
    LET bad == {i \in 1..Len(ReadNames) :
                    /\ ReadNames[i] \in failing
                    /\ Issued(ReadNames[i], v)
                    /\ ReadNames[i] # "gene_risks"}
    IN  IF bad = {} THEN NULL
        ELSE ReadNames[CHOOSE i \in bad : \A j \in bad : i <= j]

FirstReadError(v) ==
    LET bad == {i \in 1..Len(ReadNames) : ReadNames[i] \in failing /\ Issued(ReadNames[i], v)}
    IN  IF bad = {} THEN NULL
        ELSE ReadNames[CHOOSE i \in bad : \A j \in bad : i <= j]

ReadRows(v) ==
    LET geneIds == Range(allRelevantGeneIds(v))
        mutGenes == Range(mutationGeneIds(v))
        mutIds == Range(mutationIds(v))
        cancerIds == Range(cancerIdsForFetch(v))
        byId(r) == r.id \in geneIds
        byMutId(r) == r.id \in mutIds
        byGene(r) == r.gene_id \in mutGenes
        byMutation(r) == r.mutation_id \in mutIds
        byCancerGene(r) == r.gene_id \in cancerIds
    IN  [genesRows |-> Filter(db.genes, byId),
         mutsRows |-> Filter(db.mutations, byMutId),
         risksRows |-> Filter(db.risks, byGene),
         groupsRows |-> Filter(db.groups, byGene),
         mutGroupLinks |-> Filter(db.mutGroupLinks, byMutation),
         mutClassLinks |-> Filter(db.mutClassLinks, byMutation),
         overrides |-> Filter(db.overrides, byMutation),
         cancerRows |-> Filter(db.cancerRecs, byCancerGene),
         groupClassLinks |-> <<>>]

NoRows ==
    [genesRows |-> <<>>, mutsRows |-> <<>>, risksRows |-> <<>>, groupsRows |-> <<>>,
     mutGroupLinks |-> <<>>, mutClassLinks |-> <<>>, overrides |-> <<>>,
     cancerRows |-> <<>>, groupClassLinks |-> <<>>]

groupIds(F) == {F.groupsRows[i].id : i \in 1..Len(F.groupsRows)}

ReadGroupLinks(F) ==
    LET byGroup(l) == l.group_id \in groupIds(F)
    IN  Filter(db.groupClassLinks, byGroup)

----------------------------------------------------------------------------
(* generate(): the lookup maps built from the rows read *)

\* Map.get after `for (const r of rows) map.set(r.id, r)`: the last row with
\* that id, Null when there is none
LastById(rows, id) ==
    LET at == {i \in 1..Len(rows) : rows[i].id = id}
    IN  IF at = {} THEN Null ELSE Some(rows[CHOOSE i \in at : \A j \in at : j <= i])

geneById(F, id) == LastById(F.genesRows, id)

mutsById(F, id) == LastById(F.mutsRows, id)

risksByGene(F, gid) == LET ofGene(r) == r.gene_id = gid IN Filter(F.risksRows, ofGene)

groupsByGene(F, gid) == LET ofGene(r) == r.gene_id = gid IN Filter(F.groupsRows, ofGene)

cancerByGene(F, gid) == LET ofGene(r) == r.gene_id = gid IN Filter(F.cancerRows, ofGene)

classIdsByGroup(F, grid) ==
    {F.groupClassLinks[i].class_id :
        i \in {j \in 1..Len(F.groupClassLinks) : F.groupClassLinks[j].group_id = grid}}

manualGroupIdsByMutation(F, mid) ==
    {F.mutGroupLinks[i].group_id :
        i \in {j \in 1..Len(F.mutGroupLinks) : F.mutGroupLinks[j].mutation_id = mid}}

classIdsByMutation(F, mid) ==
    {F.mutClassLinks[i].class_id :
        i \in {j \in 1..Len(F.mutClassLinks) : F.mutClassLinks[j].mutation_id = mid}}

\* overrideByMutation.get(mid).get(grid): the last row of the pair wins,
\* "undefined" when the pair has no row
overrideByMutation(F, mid, grid) ==
    LET at == {i \in 1..Len(F.overrides) :
                  F.overrides[i].mutation_id = mid /\ F.overrides[i].group_id = grid}
    IN  IF at = {} THEN "undefined"
        ELSE F.overrides[CHOOSE i \in at : \A j \in at : j <= i].override

----------------------------------------------------------------------------
(* generate(): resolution *)

\* variant: the manual link is not consulted
IncludesGroup_NoManual(F, mu, gr) ==
    LET o == overrideByMutation(F, mu.id, gr.id)
        auto == IF gr.applies_to_all_classes THEN TRUE
                ELSE classIdsByMutation(F, mu.id) \cap classIdsByGroup(F, gr.id) # {}
    IN  IF o = "exclude" THEN FALSE
        ELSE IF o = "include" THEN TRUE
        ELSE auto

\* variant: the 'exclude' override is consulted after applies_to_all_classes
IncludesGroup_AllBeatsExclude(F, mu, gr) ==
    LET o == overrideByMutation(F, mu.id, gr.id)
        auto == IF gr.applies_to_all_classes THEN TRUE
                ELSE classIdsByMutation(F, mu.id) \cap classIdsByGroup(F, gr.id) # {}
        manualOk == gr.id \in manualGroupIdsByMutation(F, mu.id)
    IN  IF gr.applies_to_all_classes THEN TRUE
        ELSE IF o = "exclude" THEN FALSE
        ELSE IF o = "include" THEN TRUE
        ELSE auto \/ manualOk

\* variant: the 'include' override is not consulted
IncludesGroup_NoInclude(F, mu, gr) ==
    LET o == overrideByMutation(F, mu.id, gr.id)
        auto == IF gr.applies_to_all_classes THEN TRUE
                ELSE classIdsByMutation(F, mu.id) \cap classIdsByGroup(F, gr.id) # {}
        manualOk == gr.id \in manualGroupIdsByMutation(F, mu.id)
    IN  IF o = "exclude" THEN FALSE
        ELSE auto \/ manualOk

\* the body of `for (const gr of geneGroups)`: TRUE when gr.id is added to
\* includedGroupIds for the mutation mu
IncludesGroup(F, mu, gr) ==
    LET o == overrideByMutation(F, mu.id, gr.id)
        auto == IF gr.applies_to_all_classes THEN TRUE
                ELSE classIdsByMutation(F, mu.id) \cap classIdsByGroup(F, gr.id) # {}
        manualOk == gr.id \in manualGroupIdsByMutation(F, mu.id)
    IN  IF o = "exclude" THEN FALSE
        ELSE IF o = "include" THEN TRUE
        ELSE auto \/ manualOk

\* variant: an 'exclude' override of one mutation removes the group for the
\* whole entry
IncludedGroupIds_Veto(F, muts, geneGroups) ==
    {geneGroups[k].id :
        k \in {j \in 1..Len(geneGroups) :
                  /\ \E i \in 1..Len(muts) : IncludesGroup(F, muts[i], geneGroups[j])
                  /\ \A i \in 1..Len(muts) :
                        overrideByMutation(F, muts[i].id, geneGroups[j].id) # "exclude"}}

\* includedGroupIds after `for (const mu of muts)`
IncludedGroupIds(F, muts, geneGroups) ==
    {geneGroups[k].id :
        k \in {j \in 1..Len(geneGroups) :
                  \E i \in 1..Len(muts) : IncludesGroup(F, muts[i], geneGroups[j])}}

\* variant: a row whose age_max is below the age is left out
DoneOf_WithinAgeMax(rows, age) ==
    LET done(r) == /\ IsNull(r.age_min) \/ Val(r.age_min) <= age
                   /\ IsNull(r.age_max) \/ age <= Val(r.age_max)
        key(r) == IF IsNull(r.age_min) THEN -1 ELSE Val(r.age_min)
        kept == Filter(rows, done)
    IN  StableSortByKey(kept, Map(kept, key))

\* variant: `<` for `<=`
DoneOf_Strict(rows, age) ==
    LET done(r) == IsNull(r.age_min) \/ Val(r.age_min) < age
        key(r) == IF IsNull(r.age_min) THEN -1 ELSE Val(r.age_min)
        kept == Filter(rows, done)
    IN  StableSortByKey(kept, Map(kept, key))

\* `.filter(age_min == null || age_min <= age).sort(by age_min ?? -1)`
DoneOf(rows, age) ==
    LET done(r) == IsNull(r.age_min) \/ Val(r.age_min) <= age
        key(r) == IF IsNull(r.age_min) THEN -1 ELSE Val(r.age_min)
        kept == Filter(rows, done)
    IN  StableSortByKey(kept, Map(kept, key))

\* variant: `>=` for `>`
FutureOf_FromAge(rows, age) ==
    LET future(r) == ~IsNull(r.age_min) /\ Val(r.age_min) >= age
        key(r) == IF IsNull(r.age_min) THEN 0 ELSE Val(r.age_min)
        kept == Filter(rows, future)
    IN  StableSortByKey(kept, Map(kept, key))

\* `.filter(age_min != null && age_min > age).sort(by age_min ?? 0)`
FutureOf(rows, age) ==
    LET future(r) == ~IsNull(r.age_min) /\ Val(r.age_min) > age
        key(r) == IF IsNull(r.age_min) THEN 0 ELSE Val(r.age_min)
        kept == Filter(rows, future)
    IN  StableSortByKey(kept, Map(kept, key))

\* variant: the cancer recommendations are shown only with an included group
MutationBox_CancerWithGroups(v, F, entry) ==
    LET gene == Val(geneById(F, entry.geneId))
        found(id) == ~IsNull(mutsById(F, id))
        rowOf(id) == Val(mutsById(F, id))
        muts == uniqById(Map(Filter(entry.mutationIds, found), rowOf))
        matches(r) == sexMatches(r.sex, v.sex)
        geneRisks == Filter(risksByGene(F, entry.geneId), matches)
        geneGroups == groupsByGene(F, entry.geneId)
        includedGroupIds == IncludedGroupIds(F, muts, geneGroups)
        included(gr) == gr.id \in includedGroupIds
        includedGroups == Filter(Filter(geneGroups, included), matches)
        geneCancer == IF includeCancer(v) /\ entry.geneId \in Range(v.cancerGeneIds)
                         /\ includedGroups # <<>>
                      THEN Filter(cancerByGene(F, entry.geneId), matches)
                      ELSE <<>>
    IN  [gene |-> gene,
         mutations |-> muts,
         risks |-> geneRisks,
         doneRecs |-> DoneOf(includedGroups, v.age),
         futureRecs |-> FutureOf(includedGroups, v.age),
         cancerDoneRecs |-> DoneOf(geneCancer, v.age),
         cancerFutureRecs |-> FutureOf(geneCancer, v.age),
         cancerOnly |-> FALSE]

\* the box pushed for one active entry whose gene was read
MutationBox(v, F, entry) ==
    LET gene == Val(geneById(F, entry.geneId))
        found(id) == ~IsNull(mutsById(F, id))
        rowOf(id) == Val(mutsById(F, id))
        muts == uniqById(Map(Filter(entry.mutationIds, found), rowOf))
        matches(r) == sexMatches(r.sex, v.sex)
        geneRisks == Filter(risksByGene(F, entry.geneId), matches)
        geneGroups == groupsByGene(F, entry.geneId)
        includedGroupIds == IncludedGroupIds(F, muts, geneGroups)
        included(gr) == gr.id \in includedGroupIds
        includedGroups == Filter(Filter(geneGroups, included), matches)
        geneCancer == IF includeCancer(v) /\ entry.geneId \in Range(v.cancerGeneIds)
                      THEN Filter(cancerByGene(F, entry.geneId), matches)
                      ELSE <<>>
    IN  [gene |-> gene,
         mutations |-> muts,
         risks |-> geneRisks,
         doneRecs |-> DoneOf(includedGroups, v.age),
         futureRecs |-> FutureOf(includedGroups, v.age),
         cancerDoneRecs |-> DoneOf(geneCancer, v.age),
         cancerFutureRecs |-> FutureOf(geneCancer, v.age),
         cancerOnly |-> FALSE]

\* variant: an entry with a mutation that was not read is skipped
MutationBoxes_SkipsIncomplete(v, F) ==
    LET hasAll(entry) ==
            /\ ~IsNull(geneById(F, entry.geneId))
            /\ \A i \in 1..Len(entry.mutationIds) : ~IsNull(mutsById(F, entry.mutationIds[i]))
        boxOf(entry) == MutationBox(v, F, entry)
    IN  Map(Filter(v.activeEntries, hasAll), boxOf)

\* 1) the boxes of the loop over activeEntries: an entry whose gene was not
\* read is skipped
MutationBoxes(v, F) ==
    LET hasGene(entry) == ~IsNull(geneById(F, entry.geneId))
        boxOf(entry) == MutationBox(v, F, entry)
    IN  Map(Filter(v.activeEntries, hasGene), boxOf)

\* the box pushed for one cancer-linked gene without a mutation box
CancerOnlyBox(v, F, gid) ==
    LET matches(r) == sexMatches(r.sex, v.sex)
        geneCancer == Filter(cancerByGene(F, gid), matches)
    IN  [gene |-> Val(geneById(F, gid)),
         mutations |-> <<>>,
         risks |-> <<>>,
         doneRecs |-> <<>>,
         futureRecs |-> <<>>,
         cancerDoneRecs |-> DoneOf(geneCancer, v.age),
         cancerFutureRecs |-> FutureOf(geneCancer, v.age),
         cancerOnly |-> TRUE]

\* variant: a gene with a mutation box is not skipped
CancerOnlyBoxes_NoSkip(v, F, boxes) ==
    LET wanted(gid) == ~IsNull(geneById(F, gid))
        boxOf(gid) == CancerOnlyBox(v, F, gid)
    IN  Map(Filter(cancerIdsForFetch(v), wanted), boxOf)

\* 2) the boxes of the loop over cancerGeneIds
CancerOnlyBoxes(v, F, boxes) ==
    LET genesAlreadyInMutationBoxes == {boxes[i].gene.id : i \in 1..Len(boxes)}
        wanted(gid) == gid \notin genesAlreadyInMutationBoxes /\ ~IsNull(geneById(F, gid))
        boxOf(gid) == CancerOnlyBox(v, F, gid)
    IN  Map(Filter(cancerIdsForFetch(v), wanted), boxOf)

\* variant: the boxes stay in the order they were pushed in
SortBoxes_AsPushed(boxes) == boxes

\* boxes.sort((a, b) => a.gene.symbol.localeCompare(b.gene.symbol))
SortBoxes(boxes) ==
    LET key(b) == CollationKey(b.gene.symbol)
    IN  StableSortByKey(boxes, Map(boxes, key))

\* the value passed to setReport
BuildReport(v, F) ==
    LET boxes == MutationBoxes(v, F)
    IN  SortBoxes(boxes \o CancerOnlyBoxes(v, F, boxes))

----------------------------------------------------------------------------
(* Rows of the store *)

GeneRow(id, symbol) == [id |-> id, symbol |-> symbol]

MutationRow(id, gid, text) == [id |-> id, gene_id |-> gid, mutation |-> text]

RiskRow(id, gid, sex) == [id |-> id, gene_id |-> gid, sex |-> sex]

RecGroupRow(id, gid, sex, ageMin, all) ==
    [id |-> id, gene_id |-> gid, sex |-> sex, age_min |-> ageMin, age_max |-> Null,
     applies_to_all_classes |-> all]

CancerRecRow(id, gid, sex, ageMin) ==
    [id |-> id, gene_id |-> gid, sex |-> sex, age_min |-> ageMin, age_max |-> Null]

GroupClassLink(grid, cid) == [group_id |-> grid, class_id |-> cid]

MutationGroupLink(mid, grid) == [mutation_id |-> mid, group_id |-> grid]

MutationClassLink(mid, cid) == [mutation_id |-> mid, class_id |-> cid]

MutationGroupOverrideRow(mid, grid, o) == [mutation_id |-> mid, group_id |-> grid, override |-> o]

\* the values of the sex column
DBSex == {"M", "F", "ANY", NULL}

PatientSex == {"M", "F"}

AgeMinValues == {Null} \cup {Some(n) : n \in 0..MaxAge}

\* the genes and mutations the form offers: gene g1 with mutations m1, m2
\* and gene g2 with mutation m3
G1 == GeneRow("g1", "B")
G2 == GeneRow("g2", "a")
M1 == MutationRow("m1", "g1", "c.1A>G")
M2 == MutationRow("m2", "g1", "c.2C>T")
M3 == MutationRow("m3", "g2", "c.3del")

----------------------------------------------------------------------------
(* Rows of the form *)

EmptyMutation == [text |-> "", mutationId |-> NULL, error |-> NULL]

EmptyEntry == [geneText |-> "", geneId |-> NULL, error |-> NULL, mutations |-> <<EmptyMutation>>]

EmptyCancerEntry == [geneText |-> "", geneId |-> NULL, error |-> NULL]

\* a mutation row after pickMutation, after setMutationText
PickedMutation(mu) == [text |-> mu.mutation, mutationId |-> mu.id, error |-> NULL]

TypedMutation(text) == [text |-> text, mutationId |-> NULL, error |-> NULL]

\* a gene row after pickGene followed by the edits that gave its mutation
\* rows; a row is appended as soon as the last one has text
PickedEntry(g, muts) ==
    [geneText |-> g.symbol, geneId |-> g.id, error |-> NULL,
     mutations |-> muts \o <<EmptyMutation>>]

TypedEntry(text) ==
    [geneText |-> text, geneId |-> NULL, error |-> NULL, mutations |-> <<EmptyMutation>>]

PickedCancerEntry(g) == [geneText |-> g.symbol, geneId |-> g.id, error |-> NULL]

TypedCancerEntry(text) == [geneText |-> text, geneId |-> NULL, error |-> NULL]

AgeText(n) == [kind |-> "digits", n |-> n]

EmptyAgeText == [kind |-> "empty", n |-> 0]

----------------------------------------------------------------------------
(* The age fields of the editor (src/app/admin/edit/ui.tsx)                *)

\* the texts of an age field: blank, a decimal numeral `whole.tenths` with
\* or without a minus sign, or a text that is no number
BlankDraft == [kind |-> "blank", whole |-> 0, tenths |-> 0]

JunkDraft == [kind |-> "junk", whole |-> 0, tenths |-> 0]

NumberDraft(whole, tenths) == [kind |-> "number", whole |-> whole, tenths |-> tenths]

AgeDrafts ==
    {BlankDraft, JunkDraft}
        \cup {NumberDraft(n, d) : n \in (0 - MaxAge)..MaxAge, d \in {0, 5}}

\* parseOptionalInt: null for a blank text and for a text that is no finite
\* number, else the number with its fraction cut off
parseOptionalInt(t) == IF t.kind = "number" THEN Some(t.whole) ELSE Null

\* the texts typed into the age_max field
AgeMaxDrafts == {BlankDraft, NumberDraft(0, 0), NumberDraft(MaxAge, 5)}

\* the age_min values that saveGroup and saveCancerRec store
StoredAgeMinValues == {parseOptionalInt(t) : t \in AgeDrafts}

----------------------------------------------------------------------------
(* The editor (src/app/admin/edit/ui.tsx) and the add screen               *)
(* (src/app/login/page.tsx): picks, and handlers that write to the store   *)
(* one statement after the other, each of which the store may refuse.      *)

\* the classes of a gene (recommendation_classes, which generate() does not
\* read)
ClassesOfGene(gid) == IF gid = "g1" THEN {"c1", "c2"} ELSE {}

OverrideChoice == {"default", "include", "exclude"}

\* the (mutation, group) pairs and (mutation, class) pairs the editor shows
EditorPairs == {"m1", "m2"} \X {"gr1", "gr2"}

\* mutationGroupPick, mutationClassPick and mutationOverridePick after
\* initMutationDraft: the rows of the store
PicksOfStore(d) ==
    [manual |-> {<<l.mutation_id, l.group_id>> : l \in Range(d.mutGroupLinks)},
     classes |-> {<<l.mutation_id, l.class_id>> : l \in Range(d.mutClassLinks)},
     override |-> [p \in EditorPairs |->
                      LET rows == {o \in Range(d.overrides) :
                                      o.mutation_id = p[1] /\ o.group_id = p[2]}
                      IN  IF rows = {} THEN "default"
                          ELSE (CHOOSE o \in rows : TRUE).override]]

\* the editor with nothing picked and no call in flight
EditorClosed ==
    [picks |-> [manual |-> {}, classes |-> {},
                override |-> [p \in EditorPairs |-> "default"]],
     groupDraft |-> [appliesAll |-> {}, classes |-> {}],
     calls |-> <<>>,
     started |-> 0,
     event |-> [kind |-> "none", target |-> <<>>, ok |-> TRUE, before |-> <<>>,
                picks |-> <<>>]]

\* autoByClass of the mutation editor: the group applies to all classes or
\* holds a picked class of the mutation, by the loaded rows d
autoByClass(d, p, mu, gr) ==
    \/ gr.applies_to_all_classes
    \/ \E cid \in {"c1", "c2"} :
          /\ <<mu.id, cid>> \in p.classes
          /\ GroupClassLink(gr.id, cid) \in Range(d.groupClassLinks)

\* effectiveIncluded of the mutation editor, shown as "Effective: INCLUDED"
effectiveIncluded(d, p, mu, gr) ==
    LET overrideChoice == p.override[<<mu.id, gr.id>>]
    IN  IF overrideChoice = "exclude" THEN FALSE
        ELSE IF overrideChoice = "include" THEN TRUE
        ELSE autoByClass(d, p, mu, gr) \/ <<mu.id, gr.id>> \in p.manual

\* variant: unchecking an automatically included group removes a manual
\* link instead of setting an override
CheckboxPicks_NoAuto(d, p, mu, gr, next) ==
    LET pair == <<mu.id, gr.id>>
    IN  IF p.override[pair] # "default"
        THEN [p EXCEPT !.override[pair] = "default"]
        ELSE [p EXCEPT !.manual = IF next THEN @ \cup {pair} ELSE @ \ {pair}]

\* onChange of the inclusion checkbox of (mu, gr): the picks after it, next
\* being e.target.checked
CheckboxPicks(d, p, mu, gr, next) ==
    LET pair == <<mu.id, gr.id>>
    IN  IF p.override[pair] # "default"
        THEN [p EXCEPT !.override[pair] = "default"]
        ELSE IF autoByClass(d, p, mu, gr)
        THEN [p EXCEPT !.override[pair] = IF next THEN "default" ELSE "exclude"]
        ELSE [p EXCEPT !.manual = IF next THEN @ \cup {pair} ELSE @ \ {pair}]

\* the inclusion checkbox of (mu, gr) is clicked: it is a controlled input
\* that shows effectiveIncluded, so the click asks for the opposite
InclusionCheckboxClick(mu, gr) ==
    /\ mu \in Range(db.mutations)
    /\ gr \in Range(db.groups)
    /\ gr.gene_id = mu.gene_id
    /\ editor' = [editor EXCEPT
                     !.picks = CheckboxPicks(db, @, mu, gr,
                                             ~effectiveIncluded(db, @, mu, gr)),
                     !.event = [kind |-> "checkbox", target |-> <<mu.id, gr.id>>, ok |-> TRUE,
                                before |-> editor.picks, picks |-> <<>>]]
    /\ UNCHANGED <<db, failing, formVars, entries, cancerGeneEntries, report, error, busy,
                   pc, validated, fetched, pending, inflight, recorded>>

\* the Override select of (mu, gr) is set to a choice
OverrideSelect(mu, gr, choice) ==
    /\ mu \in Range(db.mutations)
    /\ gr \in Range(db.groups)
    /\ gr.gene_id = mu.gene_id
    /\ editor' = [editor EXCEPT !.picks.override[<<mu.id, gr.id>>] = choice,
                                !.event = [kind |-> "override", target |-> <<mu.id, gr.id>>, ok |-> TRUE,
                                before |-> editor.picks, picks |-> <<>>]]
    /\ UNCHANGED <<db, failing, formVars, entries, cancerGeneEntries, report, error, busy,
                   pc, validated, fetched, pending, inflight, recorded>>

\* the checkbox of a class of the mutation's gene is clicked
MutationClassClick(mu, cid) ==
    /\ mu \in Range(db.mutations)
    /\ cid \in ClassesOfGene(mu.gene_id)
    /\ editor' = [editor EXCEPT
                     !.picks.classes = IF <<mu.id, cid>> \in @ THEN @ \ {<<mu.id, cid>>}
                                       ELSE @ \cup {<<mu.id, cid>>},
                     !.event = [kind |-> "class", target |-> <<mu.id, cid>>, ok |-> TRUE,
                                before |-> editor.picks, picks |-> <<>>]]
    /\ UNCHANGED <<db, failing, formVars, entries, cancerGeneEntries, report, error, busy,
                   pc, validated, fetched, pending, inflight, recorded>>

\* the statements of the handlers
DeleteWhere(table, column, id) ==
    [act |-> "delete", table |-> table, column |-> column, id |-> id, rows |-> <<>>]

InsertRows(table, rows) ==
    [act |-> "insert", table |-> table, column |-> "", id |-> "", rows |-> rows]

UpdateById(table, id, fields) ==
    [act |-> "update", table |-> table, column |-> "id", id |-> id, rows |-> <<fields>>]

\* the store after a statement it has accepted
ApplyStatement(d, st) ==
    LET old == d[st.table]
        kept(r) == r[st.column] # st.id
        merged(r) == [f \in DOMAIN r |->
                         IF f \in DOMAIN st.rows[1] THEN st.rows[1][f] ELSE r[f]]
    IN  CASE st.act = "delete" -> [d EXCEPT ![st.table] = Filter(old, kept)]
          [] st.act = "insert" -> [d EXCEPT ![st.table] = old \o st.rows]
          [] st.act = "update" ->
                [d EXCEPT ![st.table] =
                    [i \in 1..Len(old) |-> IF old[i].id = st.id THEN merged(old[i]) ELSE old[i]]]

\* variant: the override picks are not saved
saveMutation_NoOverrides(d, p, mu) ==
    LET ofGene(gr) == gr.gene_id = mu.gene_id
        idOf(gr) == gr.id
        allowedGroupIds == Map(Filter(d.groups, ofGene), idOf)
        manualPicked(gid) == <<mu.id, gid>> \in p.manual
        linkOf(gid) == MutationGroupLink(mu.id, gid)
        selectedGroupIds == Filter(allowedGroupIds, manualPicked)
        classPicked(cid) == <<mu.id, cid>> \in p.classes
        classLinkOf(cid) == MutationClassLink(mu.id, cid)
        selectedClassIds == Filter(<<"c1", "c2">>, classPicked)
        allowedClass(cid) == cid \in ClassesOfGene(mu.gene_id)
        insertOf(table, rs) == IF rs = <<>> THEN <<>> ELSE <<InsertRows(table, rs)>>
    IN  <<UpdateById("mutations", mu.id, [mutation |-> mu.mutation])>>
            \o <<DeleteWhere("mutGroupLinks", "mutation_id", mu.id)>>
            \o insertOf("mutGroupLinks", Map(selectedGroupIds, linkOf))
            \o <<DeleteWhere("mutClassLinks", "mutation_id", mu.id)>>
            \o insertOf("mutClassLinks",
                        Map(Filter(selectedClassIds, allowedClass), classLinkOf))

\* the statements of saveMutation for the picks p, in order; an insert
\* with no row is not sent
saveMutation(d, p, mu) ==
    LET ofGene(gr) == gr.gene_id = mu.gene_id
        idOf(gr) == gr.id
        allowedGroupIds == Map(Filter(d.groups, ofGene), idOf)
        manualPicked(gid) == <<mu.id, gid>> \in p.manual
        linkOf(gid) == MutationGroupLink(mu.id, gid)
        selectedGroupIds == Filter(allowedGroupIds, manualPicked)
        classPicked(cid) == <<mu.id, cid>> \in p.classes
        classLinkOf(cid) == MutationClassLink(mu.id, cid)
        selectedClassIds == Filter(<<"c1", "c2">>, classPicked)
        allowedClass(cid) == cid \in ClassesOfGene(mu.gene_id)
        overridden(gid) == <<mu.id, gid>> \in EditorPairs
                              /\ p.override[<<mu.id, gid>>] # "default"
        overrideOf(gid) == MutationGroupOverrideRow(mu.id, gid, p.override[<<mu.id, gid>>])
        rows == Map(Filter(allowedGroupIds, overridden), overrideOf)
        insertOf(table, rs) == IF rs = <<>> THEN <<>> ELSE <<InsertRows(table, rs)>>
    IN  <<UpdateById("mutations", mu.id, [mutation |-> mu.mutation])>>
            \o <<DeleteWhere("mutGroupLinks", "mutation_id", mu.id)>>
            \o insertOf("mutGroupLinks", Map(selectedGroupIds, linkOf))
            \o <<DeleteWhere("mutClassLinks", "mutation_id", mu.id)>>
            \o insertOf("mutClassLinks",
                        Map(Filter(selectedClassIds, allowedClass), classLinkOf))
            \o <<DeleteWhere("overrides", "mutation_id", mu.id)>>
            \o insertOf("overrides", rows)

\* the statements of deleteMutation
deleteMutation(mutationId) ==
    <<DeleteWhere("mutGroupLinks", "mutation_id", mutationId),
      DeleteWhere("mutClassLinks", "mutation_id", mutationId),
      DeleteWhere("overrides", "mutation_id", mutationId),
      DeleteWhere("mutations", "id", mutationId)>>

\* variant: the group row is deleted before its dependent rows
deleteGroup_RowFirst(groupId) ==
    <<DeleteWhere("groups", "id", groupId),
      DeleteWhere("mutGroupLinks", "group_id", groupId),
      DeleteWhere("groupClassLinks", "group_id", groupId),
      DeleteWhere("overrides", "group_id", groupId)>>

\* the statements of deleteGroup
deleteGroup(groupId) ==
    <<DeleteWhere("mutGroupLinks", "group_id", groupId),
      DeleteWhere("groupClassLinks", "group_id", groupId),
      DeleteWhere("overrides", "group_id", groupId),
      DeleteWhere("groups", "id", groupId)>>

\* the stored manual links, class links and overrides of a mutation
LinksOfMutation(d, mid) ==
    LET ofMutation(r) == r.mutation_id = mid
    IN  [mutGroupLinks |-> Filter(d.mutGroupLinks, ofMutation),
         mutClassLinks |-> Filter(d.mutClassLinks, ofMutation),
         overrides |-> Filter(d.overrides, ofMutation)]

\* a handler is called: its statements are fixed by the state it was
\* rendered with (saveMutation was rendered with the stored links of its
\* mutation); the calls started are counted up to MaxCalls
StartCall(op, target, program, p) ==
    /\ editor' = [editor EXCEPT
                     !.started = IF @ < MaxCalls THEN @ + 1 ELSE @,
                     !.calls = Append(@, [op |-> op, target |-> target, todo |-> program,
                                          before |-> IF op = "saveMutation"
                                                     THEN LinksOfMutation(db, target)
                                                     ELSE <<>>,
                                          picks |-> p])]
    /\ UNCHANGED <<db, failing, formVars, entries, cancerGeneEntries, report, error, busy,
                   pc, validated, fetched, pending, inflight, recorded>>

\* a call of the handler op on the item target is in flight: its button is
\* disabled in the tab that made the call
InFlight(op, target) ==
    \E i \in 1..Len(editor.calls) :
        editor.calls[i].op = op /\ editor.calls[i].target = target

\* Save is clicked on a mutation of the loaded list, in a tab whose picks
\* are p
SaveMutationClick(mu, p) ==
    /\ mu \in Range(db.mutations)
    /\ StartCall("saveMutation", mu.id, saveMutation(db, p, mu), p)

\* Delete is clicked on a mutation of the loaded list
DeleteMutationClick(mu) ==
    /\ mu \in Range(db.mutations)
    /\ ~InFlight("deleteMutation", mu.id)
    /\ StartCall("deleteMutation", mu.id, deleteMutation(mu.id), editor.picks)

\* Delete is clicked on a group of the loaded list
DeleteGroupClick(gr) ==
    /\ gr \in Range(db.groups)
    /\ ~InFlight("deleteGroup", gr.id)
    /\ StartCall("deleteGroup", gr.id, deleteGroup(gr.id), editor.picks)

\* the statements of saveGroup for the drafts d: the row is updated first,
\* then its class links are replaced
saveGroup(d, gr) ==
    LET appliesAll == gr.id \in d.appliesAll
        picked(cid) == <<gr.id, cid>> \in d.classes
        linkOf(cid) == GroupClassLink(gr.id, cid)
        selectedClassIds == Filter(<<"c1", "c2">>, picked)
    IN  <<UpdateById("groups", gr.id,
                     [sex |-> IF gr.sex \in {"M", "F"} THEN gr.sex ELSE "ANY",
                      age_min |-> gr.age_min, age_max |-> gr.age_max,
                      applies_to_all_classes |-> appliesAll]),
          DeleteWhere("groupClassLinks", "group_id", gr.id)>>
            \o (IF appliesAll \/ selectedClassIds = <<>> THEN <<>>
                ELSE <<InsertRows("groupClassLinks", Map(selectedClassIds, linkOf))>>)

\* the statements of addRecommendationGroup for gene g1; the store gives the
\* id gr3 to the group inserted
addRecommendationGroup(applies_to_all_classes, groupSelectedClassIds) ==
    LET linkOf(cid) == GroupClassLink("gr3", cid)
    IN  <<InsertRows("groups",
                     <<RecGroupRow("gr3", "g1", NULL, Null, applies_to_all_classes)>>)>>
            \o (IF applies_to_all_classes THEN <<>>
                ELSE <<InsertRows("groupClassLinks", Map(groupSelectedClassIds, linkOf))>>)

\* the "applies to all classes" button of a group's draft
ToggleAppliesAll(gr) ==
    /\ gr \in Range(db.groups)
    /\ editor' = [editor EXCEPT
                     !.groupDraft.appliesAll =
                         IF gr.id \in @ THEN @ \ {gr.id} ELSE @ \cup {gr.id},
                     !.event = [EditorClosed.event EXCEPT !.kind = "draft"]]
    /\ UNCHANGED <<db, failing, formVars, entries, cancerGeneEntries, report, error, busy,
                   pc, validated, fetched, pending, inflight, recorded>>

\* a class checkbox of a group's draft, shown while the draft does not
\* apply to all classes
ToggleGroupClass(gr, cid) ==
    /\ gr \in Range(db.groups)
    /\ gr.id \notin editor.groupDraft.appliesAll
    /\ editor' = [editor EXCEPT
                     !.groupDraft.classes =
                         IF <<gr.id, cid>> \in @ THEN @ \ {<<gr.id, cid>>}
                         ELSE @ \cup {<<gr.id, cid>>},
                     !.event = [EditorClosed.event EXCEPT !.kind = "draft"]]
    /\ UNCHANGED <<db, failing, formVars, entries, cancerGeneEntries, report, error, busy,
                   pc, validated, fetched, pending, inflight, recorded>>

\* Save is clicked on a group
SaveGroupClick(gr) ==
    /\ gr \in Range(db.groups)
    /\ ~InFlight("saveGroup", gr.id)
    /\ StartCall("saveGroup", gr.id, saveGroup(editor.groupDraft, gr), editor.picks)

\* "Add group" is clicked on the add screen with gene g1 chosen; a form
\* with neither "all classes" nor a class is refused before any write
AddRecommendationGroupClick(applies_to_all_classes, groupSelectedClassIds) ==
    /\ applies_to_all_classes \/ groupSelectedClassIds # <<>>
    /\ ~InFlight("addRecommendationGroup", "g1")
    /\ \A gr \in Range(db.groups) : gr.id # "gr3"
    /\ StartCall("addRecommendationGroup", "g1",
                 addRecommendationGroup(applies_to_all_classes, groupSelectedClassIds),
                 editor.picks)

\* the store accepts the next statement of the i-th call in flight; after
\* the last statement the call ends
StatementDone(i) ==
    /\ i \in 1..Len(editor.calls)
    /\ LET call == editor.calls[i]
           others == [k \in 1..(Len(editor.calls) - 1) |->
                         IF k < i THEN editor.calls[k] ELSE editor.calls[k + 1]]
       IN  /\ db' = ApplyStatement(db, Head(call.todo))
           /\ editor' = IF Len(call.todo) = 1
                        THEN [editor EXCEPT
                                 !.calls = others,
                                 !.event = [kind |-> "ended",
                                            target |-> <<call.op, call.target>>,
                                            ok |-> TRUE, before |-> call.before,
                                            picks |-> call.picks]]
                        ELSE [editor EXCEPT !.calls[i].todo = Tail(@)]
    /\ UNCHANGED <<failing, formVars, entries, cancerGeneEntries, report, error, busy,
                   pc, validated, fetched, pending, inflight, recorded>>

\* the store answers the next statement of the i-th call with an error:
\* the statement changes nothing, the handler throws and ends
StatementFails(i) ==
    /\ i \in 1..Len(editor.calls)
    /\ LET call == editor.calls[i]
           others == [k \in 1..(Len(editor.calls) - 1) |->
                         IF k < i THEN editor.calls[k] ELSE editor.calls[k + 1]]
       IN  editor' = [editor EXCEPT
                         !.calls = others,
                         !.event = [kind |-> "ended", target |-> <<call.op, call.target>>,
                                    ok |-> FALSE, before |-> call.before,
                                    picks |-> call.picks]]
    /\ UNCHANGED <<db, failing, formVars, entries, cancerGeneEntries, report, error, busy,
                   pc, validated, fetched, pending, inflight, recorded>>

----------------------------------------------------------------------------
(* Initial states: the store snapshot and the filled form are drawn from    *)
(* bounded families; every form is one the handlers of the form produce    *)
(* (pickGene, pickMutation, setGeneText, setMutationText, pickCancerGene,  *)
(* the patient and cancer buttons).                                        *)

\* the rows of `all` that are in the set S, in the order of `all`
Among(all, S) == LET in(r) == r \in S IN Filter(all, in)

OverrideRows(mid, grid, o) ==
    IF o = "undefined" THEN <<>> ELSE <<MutationGroupOverrideRow(mid, grid, o)>>

\* no generation yet; the reports of the first `limit` generations that
\* end with a report are recorded
GeneratorIdle(limit) ==
    /\ report = Null
    /\ error = NULL
    /\ busy = FALSE
    /\ pc = "idle"
    /\ validated = NoInputs
    /\ fetched = NoRows
    /\ pending = {}
    /\ inflight = 0
    /\ recorded = [limit |-> limit, inputs |-> <<>>, reports |-> <<>>]

IdleRecording(limit) == GeneratorIdle(limit) /\ editor = EditorClosed

Idle == IdleRecording(0)

\* the state after construction: an empty form
InitBlank ==
    /\ db = [genes |-> <<G1, G2>>, mutations |-> <<M1, M2, M3>>, risks |-> <<>>,
             groups |-> <<>>, groupClassLinks |-> <<>>, mutGroupLinks |-> <<>>,
             mutClassLinks |-> <<>>, overrides |-> <<>>, cancerRecs |-> <<>>]
    /\ failing = {}
    /\ patientAge = EmptyAgeText
    /\ patientSex = NULL
    /\ cancerPositive = NULL
    /\ cancerLinkedToGene = NULL
    /\ entries = <<EmptyEntry>>
    /\ cancerGeneEntries = <<EmptyCancerEntry>>
    /\ Idle

\* resolution: group gr1 of gene g1 against mutations m1 and m2, over every
\* combination of applies_to_all_classes, class links, manual links and
\* overrides; a group that applies to all classes has no class link
InitResolve ==
    \E all \in BOOLEAN, gc \in SUBSET {"c1", "c2"},
       mc1 \in SUBSET {"c1", "c2"}, mc2 \in SUBSET {"c2"},
       ml \in SUBSET {"m1", "m2"},
       o1 \in {"undefined", "include", "exclude"},
       o2 \in {"undefined", "include", "exclude"},
       picked \in {<<M1>>, <<M2>>, <<M1, M2>>, <<M2, M1>>} :
        /\ all => gc = {}
        /\ db = [genes |-> <<G1, G2>>,
                 mutations |-> <<M1, M2, M3>>,
                 risks |-> <<RiskRow("r1", "g1", NULL)>>,
                 groups |-> <<RecGroupRow("gr1", "g1", NULL, Null, all),
                              RecGroupRow("gr2", "g1", NULL, Some(1), TRUE),
                              RecGroupRow("gr3", "g2", NULL, Null, TRUE)>>,
                 groupClassLinks |->
                     Among(<<GroupClassLink("gr1", "c1"), GroupClassLink("gr1", "c2")>>,
                           {GroupClassLink("gr1", c) : c \in gc}),
                 mutGroupLinks |->
                     Among(<<MutationGroupLink("m1", "gr1"), MutationGroupLink("m2", "gr1")>>,
                           {MutationGroupLink(m, "gr1") : m \in ml}),
                 mutClassLinks |->
                     Among(<<MutationClassLink("m1", "c1"), MutationClassLink("m1", "c2"),
                             MutationClassLink("m2", "c2")>>,
                           {MutationClassLink("m1", c) : c \in mc1}
                               \cup {MutationClassLink("m2", c) : c \in mc2}),
                 overrides |-> OverrideRows("m1", "gr1", o1) \o OverrideRows("m2", "gr1", o2),
                 cancerRecs |-> <<CancerRecRow("k1", "g1", NULL, Null)>>]
        /\ failing = {}
        /\ patientAge = AgeText(1)
        /\ patientSex = "F"
        /\ cancerPositive = "false"
        /\ cancerLinkedToGene = "false"
        /\ entries = <<PickedEntry(G1, Map(picked, PickedMutation)), EmptyEntry>>
        /\ cancerGeneEntries = <<EmptyCancerEntry>>
        /\ Idle

\* sex and age filters: the sex and age_min of two groups and the sex of a
\* risk of gene g1, against every patient sex and age
InitFilters ==
    \E s1 \in DBSex, a1 \in AgeMinValues, a2 \in AgeMinValues, rs \in DBSex,
       age \in 0..MaxAge, sex \in PatientSex,
       picked \in {<<M1>>, <<M1, M1>>} :
        /\ db = [genes |-> <<G1, G2>>,
                 mutations |-> <<M1, M2, M3>>,
                 risks |-> <<RiskRow("r1", "g1", rs), RiskRow("r2", "g2", NULL)>>,
                 groups |-> <<RecGroupRow("gr1", "g1", s1, a1, TRUE),
                              RecGroupRow("gr2", "g1", NULL, a2, FALSE),
                              RecGroupRow("gr3", "g2", NULL, Null, TRUE)>>,
                 groupClassLinks |-> <<GroupClassLink("gr2", "c1")>>,
                 mutGroupLinks |-> <<>>,
                 mutClassLinks |-> <<MutationClassLink("m1", "c1")>>,
                 overrides |-> <<>>,
                 cancerRecs |-> <<>>]
        /\ failing = {}
        /\ patientAge = AgeText(age)
        /\ patientSex = sex
        /\ cancerPositive = "false"
        /\ cancerLinkedToGene = "false"
        /\ entries = <<PickedEntry(G1, Map(picked, PickedMutation)), EmptyEntry>>
        /\ cancerGeneEntries = <<EmptyCancerEntry>>
        /\ Idle

\* the gene entries and cancer-gene selections of the cancer family
CancerFamilyEntries ==
    {<<>>,
     <<PickedEntry(G1, <<PickedMutation(M1)>>)>>,
     <<PickedEntry(G1, <<PickedMutation(M2)>>)>>,
     <<PickedEntry(G2, <<PickedMutation(M3)>>)>>,
     <<PickedEntry(G1, <<PickedMutation(M1)>>), PickedEntry(G2, <<PickedMutation(M3)>>)>>,
     <<PickedEntry(G2, <<PickedMutation(M3)>>), PickedEntry(G1, <<PickedMutation(M2)>>)>>,
     <<PickedEntry(G1, <<PickedMutation(M1)>>), PickedEntry(G1, <<PickedMutation(M2)>>)>>}

CancerFamilySelections ==
    {<<>>, <<G1>>, <<G2>>, <<G1, G2>>, <<G2, G1>>, <<G1, G1>>}

\* cancer recommendations: the sex and age_min of a cancer recommendation of
\* gene g1, the answers to the cancer questions, the cancer-linked genes
\* picked, the gene entries, and gene g2 deleted from the store or not
InitCancer ==
    \E ks \in DBSex, ka \in AgeMinValues, age \in 0..MaxAge, sex \in PatientSex,
       cp \in {"true", "false"}, linked \in {"true", "false"},
       chosen \in CancerFamilySelections, picked \in CancerFamilyEntries,
       g2Present \in BOOLEAN :
        /\ cp = "false" => linked = "false"
        /\ ~(cp = "true" /\ linked = "true") => chosen = <<>>
        /\ db = [genes |-> IF g2Present THEN <<G1, G2>> ELSE <<G1>>,
                 mutations |-> <<M1, M2, M3>>,
                 risks |-> <<RiskRow("r1", "g1", "ANY"), RiskRow("r2", "g2", "M")>>,
                 groups |-> <<RecGroupRow("gr1", "g1", NULL, Null, FALSE),
                              RecGroupRow("gr2", "g1", NULL, Some(1), TRUE),
                              RecGroupRow("gr3", "g2", "ANY", Null, TRUE)>>,
                 groupClassLinks |-> <<GroupClassLink("gr1", "c1")>>,
                 mutGroupLinks |-> <<MutationGroupLink("m1", "gr1")>>,
                 mutClassLinks |-> <<MutationClassLink("m1", "c1")>>,
                 overrides |-> <<MutationGroupOverrideRow("m2", "gr2", "exclude")>>,
                 cancerRecs |-> <<CancerRecRow("k1", "g1", ks, ka),
                                  CancerRecRow("k2", "g1", NULL, Some(1)),
                                  CancerRecRow("k3", "g2", "ANY", Null)>>]
        /\ failing = {}
        /\ patientAge = AgeText(age)
        /\ patientSex = sex
        /\ cancerPositive = cp
        /\ cancerLinkedToGene = linked
        /\ entries = picked \o <<EmptyEntry>>
        /\ cancerGeneEntries = Map(chosen, PickedCancerEntry) \o <<EmptyCancerEntry>>
        /\ Idle

\* forms that do not pass the validation
InvalidForms ==
    LET form(sex, cp, linked, es, cs) ==
            [sex |-> sex, cp |-> cp, linked |-> linked, entries |-> es, cancer |-> cs]
        g1m1 == <<PickedEntry(G1, <<PickedMutation(M1)>>), EmptyEntry>>
        none == <<EmptyCancerEntry>>
    IN  {form(NULL, "false", "false", g1m1, none),
         form("F", NULL, NULL, g1m1, none),
         form("F", "true", NULL, g1m1, none),
         form("F", "true", "true", g1m1, none),
         form("F", "true", "true", g1m1, <<TypedCancerEntry("zz"), EmptyCancerEntry>>),
         form("F", "false", "false", <<TypedEntry("zz"), EmptyEntry>>, none),
         form("F", "false", "false", <<TypedEntry(" ")>>, none),
         form("F", "false", "false", <<PickedEntry(G1, <<>>), EmptyEntry>>, none),
         form("F", "false", "false",
              <<PickedEntry(G1, <<PickedMutation(M1), TypedMutation("zz")>>), EmptyEntry>>, none)}

\* the store of the fault family
FaultFamilyStore ==
    [genes |-> <<G1, G2>>,
     mutations |-> <<M1, M2, M3>>,
     risks |-> <<RiskRow("r1", "g1", "ANY")>>,
     groups |-> <<RecGroupRow("gr1", "g1", NULL, Null, FALSE),
                  RecGroupRow("gr2", "g1", NULL, Some(1), TRUE)>>,
     groupClassLinks |-> <<GroupClassLink("gr1", "c1")>>,
     mutGroupLinks |-> <<MutationGroupLink("m1", "gr1")>>,
     mutClassLinks |-> <<MutationClassLink("m1", "c1")>>,
     overrides |-> <<MutationGroupOverrideRow("m2", "gr2", "exclude")>>,
     cancerRecs |-> <<CancerRecRow("k3", "g2", "ANY", Null)>>]

InitInvalid ==
    \E f \in InvalidForms :
        /\ db = FaultFamilyStore
        /\ failing = {}
        /\ patientAge = AgeText(1)
        /\ patientSex = f.sex
        /\ cancerPositive = f.cp
        /\ cancerLinkedToGene = f.linked
        /\ entries = f.entries
        /\ cancerGeneEntries = f.cancer
        /\ Idle

\* read errors: one or two reads of the store answer with an error
InitFaults ==
    \E bad \in SUBSET (Range(ReadNames) \cup {"recommendation_group_classes"}),
       picked \in {<<>>, <<PickedEntry(G1, <<PickedMutation(M1)>>)>>} :
        /\ Cardinality(bad) \in {1, 2}
        /\ db = FaultFamilyStore
        /\ failing = bad
        /\ patientAge = AgeText(1)
        /\ patientSex = "F"
        /\ cancerPositive = "true"
        /\ cancerLinkedToGene = "true"
        /\ entries = picked \o <<EmptyEntry>>
        /\ cancerGeneEntries = <<PickedCancerEntry(G2), EmptyCancerEntry>>
        /\ Idle


\* the age input left empty in a form that is complete otherwise
InitEmptyAge ==
    \E sex \in PatientSex, picked \in {<<M1>>, <<M2>>, <<M1, M2>>},
       cancer \in {<<"false", "false">>, <<"true", "false">>, <<"true", "true">>} :
        /\ db = FaultFamilyStore
        /\ failing = {}
        /\ patientAge = EmptyAgeText
        /\ patientSex = sex
        /\ cancerPositive = cancer[1]
        /\ cancerLinkedToGene = cancer[2]
        /\ entries = <<PickedEntry(G1, Map(picked, PickedMutation)), EmptyEntry>>
        /\ cancerGeneEntries = IF cancer[2] = "true"
                               THEN <<PickedCancerEntry(G2), EmptyCancerEntry>>
                               ELSE <<EmptyCancerEntry>>
        /\ Idle


\* complete forms on the store of the fault family; the reports of the first
\* two generations are recorded
InitTwice ==
    \E age \in 0..MaxAge, sex \in PatientSex,
       picked \in {<<>>, <<M1>>, <<M2, M1>>},
       cancer \in {<<"false", "false">>, <<"true", "false">>, <<"true", "true">>} :
        /\ db = FaultFamilyStore
        /\ failing = {}
        /\ patientAge = AgeText(age)
        /\ patientSex = sex
        /\ cancerPositive = cancer[1]
        /\ cancerLinkedToGene = cancer[2]
        /\ entries = IF picked = <<>> THEN <<EmptyEntry>>
                     ELSE <<PickedEntry(G1, Map(picked, PickedMutation)), EmptyEntry>>
        /\ cancerGeneEntries = IF cancer[2] = "true"
                               THEN <<PickedCancerEntry(G2), PickedCancerEntry(G1),
                                      EmptyCancerEntry>>
                               ELSE <<EmptyCancerEntry>>
        /\ IdleRecording(2)


\* mutations deleted after they were picked: m2, or m1 and m2, are not in
\* gene_mutations any more, while the rows that link m2 to classes and
\* groups were read before deleteMutation removed them, or were not
InitDeleted ==
    \E gone \in {{"m2"}, {"m1", "m2"}},
       picked \in {<<M2>>, <<M1, M2>>, <<M2, M1>>},
       orphans \in SUBSET {"class", "manual", "include"},
       sex \in PatientSex :
        /\ db = [genes |-> <<G1, G2>>,
                 mutations |-> LET kept(r) == r.id \notin gone
                               IN  Filter(<<M1, M2, M3>>, kept),
                 risks |-> <<RiskRow("r1", "g1", NULL)>>,
                 groups |-> <<RecGroupRow("gr1", "g1", NULL, Null, FALSE),
                              RecGroupRow("gr2", "g1", NULL, Some(1), FALSE),
                              RecGroupRow("gr3", "g1", "F", Null, TRUE)>>,
                 groupClassLinks |-> <<GroupClassLink("gr1", "c1")>>,
                 mutGroupLinks |-> IF "manual" \in orphans
                                   THEN <<MutationGroupLink("m2", "gr2")>> ELSE <<>>,
                 mutClassLinks |-> IF "class" \in orphans
                                   THEN <<MutationClassLink("m2", "c1")>> ELSE <<>>,
                 overrides |-> IF "include" \in orphans
                               THEN <<MutationGroupOverrideRow("m2", "gr2", "include")>>
                               ELSE <<>>,
                 cancerRecs |-> <<>>]
        /\ failing = {}
        /\ patientAge = AgeText(1)
        /\ patientSex = sex
        /\ cancerPositive = "false"
        /\ cancerLinkedToGene = "false"
        /\ entries = <<PickedEntry(G1, Map(picked, PickedMutation)), EmptyEntry>>
        /\ cancerGeneEntries = <<EmptyCancerEntry>>
        /\ Idle


\* age_min values as the editor stores them: two groups and two cancer
\* recommendations of gene g1, saved from the texts of the age field
InitAgeMin ==
    \E a1 \in StoredAgeMinValues, a2 \in StoredAgeMinValues, age \in 0..MaxAge :
        /\ db = [genes |-> <<G1, G2>>,
                 mutations |-> <<M1, M2, M3>>,
                 risks |-> <<>>,
                 groups |-> <<RecGroupRow("gr1", "g1", NULL, a1, TRUE),
                              RecGroupRow("gr2", "g1", NULL, a2, TRUE)>>,
                 groupClassLinks |-> <<>>,
                 mutGroupLinks |-> <<>>,
                 mutClassLinks |-> <<>>,
                 overrides |-> <<>>,
                 cancerRecs |-> <<CancerRecRow("k1", "g1", "ANY", a1),
                                  CancerRecRow("k2", "g1", "ANY", a2)>>]
        /\ failing = {}
        /\ patientAge = AgeText(age)
        /\ patientSex = "F"
        /\ cancerPositive = "true"
        /\ cancerLinkedToGene = "true"
        /\ entries = <<PickedEntry(G1, <<PickedMutation(M1)>>), EmptyEntry>>
        /\ cancerGeneEntries = <<PickedCancerEntry(G1), EmptyCancerEntry>>
        /\ Idle


\* a group and a cancer recommendation of gene g1, stored without age_max;
\* the reports of the first two generations are recorded
InitAgeMax ==
    \E a1 \in {Null, Some(1)}, age \in 0..MaxAge :
        /\ db = [genes |-> <<G1, G2>>,
                 mutations |-> <<M1, M2, M3>>,
                 risks |-> <<>>,
                 groups |-> <<RecGroupRow("gr1", "g1", NULL, a1, TRUE)>>,
                 groupClassLinks |-> <<>>,
                 mutGroupLinks |-> <<>>,
                 mutClassLinks |-> <<>>,
                 overrides |-> <<>>,
                 cancerRecs |-> <<CancerRecRow("k1", "g1", "ANY", a1)>>]
        /\ failing = {}
        /\ patientAge = AgeText(age)
        /\ patientSex = "F"
        /\ cancerPositive = "true"
        /\ cancerLinkedToGene = "true"
        /\ entries = <<PickedEntry(G1, <<PickedMutation(M1)>>), EmptyEntry>>
        /\ cancerGeneEntries = <<PickedCancerEntry(G1), EmptyCancerEntry>>
        /\ IdleRecording(2)

Init == InitBlank \/ InitResolve \/ InitFilters \/ InitCancer \/ InitInvalid \/ InitFaults
          \/ InitEmptyAge
          \/ InitTwice
          \/ InitDeleted
          \/ InitAgeMin

----------------------------------------------------------------------------
(* The handlers of the gene and mutation fields of the form *)

\* `if (last.text.trim() !== '' && rows.length < 20) rows.push(empty)`
\* on the rows whose text is held in the given field
PushEmptyRow(rows, field, empty) ==
    IF Trim(rows[Len(rows)][field]) # "" /\ Len(rows) < MaxRows
    THEN Append(rows, empty) ELSE rows

\* variant: typing in the gene field keeps the mutation rows
setGeneText_KeepsMutations(idx, v) ==
    /\ idx \in 1..Len(entries)
    /\ entries' = PushEmptyRow(
                      [entries EXCEPT ![idx] = [@ EXCEPT !.geneText = v, !.error = NULL,
                                                         !.geneId = NULL]],
                      "geneText", EmptyEntry)
    /\ UNCHANGED <<db, failing, editor, formVars, cancerGeneEntries, report, error, busy, pc,
                    validated, fetched, pending, inflight, recorded>>

\* typing v in the gene field of row idx
setGeneText(idx, v) ==
    /\ idx \in 1..Len(entries)
    /\ entries' = PushEmptyRow(
                      [entries EXCEPT ![idx] = [@ EXCEPT !.geneText = v, !.error = NULL,
                                                         !.geneId = NULL,
                                                         !.mutations = <<EmptyMutation>>]],
                      "geneText", EmptyEntry)
    /\ UNCHANGED <<db, failing, editor, formVars, cancerGeneEntries, report, error, busy, pc,
                    validated, fetched, pending, inflight, recorded>>

\* the gene g is picked from the options of row idx: the loaded genes whose
\* symbol starts with the text of the field.  ensureMutationsLoaded(g.id)
\* then reads the mutations of g, which pickMutation offers.
pickGene(idx, g) ==
    /\ idx \in 1..Len(entries)
    /\ g \in Range(db.genes)
    /\ startsWithCI(g.symbol, entries[idx].geneText)
    /\ entries' = PushEmptyRow(
                      [entries EXCEPT ![idx] = [@ EXCEPT !.geneText = g.symbol, !.geneId = g.id,
                                                         !.error = NULL,
                                                         !.mutations = <<EmptyMutation>>]],
                      "geneText", EmptyEntry)
    /\ UNCHANGED <<db, failing, editor, formVars, cancerGeneEntries, report, error, busy, pc,
                    validated, fetched, pending, inflight, recorded>>

\* typing v in the mutation field mutIdx of row geneIdx; the field is
\* disabled while the row has no gene
setMutationText(geneIdx, mutIdx, v) ==
    /\ geneIdx \in 1..Len(entries)
    /\ mutIdx \in 1..Len(entries[geneIdx].mutations)
    /\ entries[geneIdx].geneId # NULL
    /\ entries' = [entries EXCEPT ![geneIdx].mutations =
                      PushEmptyRow([@ EXCEPT ![mutIdx] = TypedMutation(v)],
                                   "text", EmptyMutation)]
    /\ UNCHANGED <<db, failing, editor, formVars, cancerGeneEntries, report, error, busy, pc,
                    validated, fetched, pending, inflight, recorded>>

\* mutationOptions of a row: the cached mutations of its gene, none without
\* a gene
mutationOptions(e) ==
    IF e.geneId = NULL THEN {}
    ELSE {mu \in Range(db.mutations) : mu.gene_id = e.geneId}

\* the mutation mu is picked from the options of field mutIdx of row
\* geneIdx
pickMutation(geneIdx, mutIdx, mu) ==
    /\ geneIdx \in 1..Len(entries)
    /\ mutIdx \in 1..Len(entries[geneIdx].mutations)
    /\ mu \in mutationOptions(entries[geneIdx])
    /\ startsWithCI(mu.mutation, entries[geneIdx].mutations[mutIdx].text)
    /\ entries' = [entries EXCEPT ![geneIdx].mutations =
                      PushEmptyRow([@ EXCEPT ![mutIdx] = PickedMutation(mu)],
                                   "text", EmptyMutation)]
    /\ UNCHANGED <<db, failing, editor, formVars, cancerGeneEntries, report, error, busy, pc,
                    validated, fetched, pending, inflight, recorded>>

\* reset(): the form and the outputs are cleared; the busy flag and a
\* generation in flight are left alone
reset ==
    /\ error' = NULL
    /\ report' = Null
    /\ patientAge' = EmptyAgeText
    /\ patientSex' = NULL
    /\ cancerPositive' = NULL
    /\ cancerLinkedToGene' = NULL
    /\ cancerGeneEntries' = <<EmptyCancerEntry>>
    /\ entries' = <<EmptyEntry>>
    /\ UNCHANGED <<db, failing, editor, busy, pc, validated, fetched, pending, inflight,
                   recorded>>

\* the texts typed in the gene fields and in the mutation fields
GeneTexts == {"b", "x"}

MutationTexts == {"c."}

\* the form on a store with two genes, of which g1 has a mutation
InitForm ==
    /\ db = [genes |-> <<G1, G2>>, mutations |-> <<M1>>, risks |-> <<>>,
             groups |-> <<>>, groupClassLinks |-> <<>>, mutGroupLinks |-> <<>>,
             mutClassLinks |-> <<>>, overrides |-> <<>>, cancerRecs |-> <<>>]
    /\ failing = {}
    /\ patientAge = EmptyAgeText
    /\ patientSex = NULL
    /\ cancerPositive = NULL
    /\ cancerLinkedToGene = NULL
    /\ entries = <<EmptyEntry>>
    /\ cancerGeneEntries = <<EmptyCancerEntry>>
    /\ Idle

NextForm ==
    \/ \E idx \in 1..MaxRows, v \in GeneTexts : setGeneText(idx, v)
    \/ \E idx \in 1..MaxRows, g \in Range(db.genes) : pickGene(idx, g)
    \/ \E geneIdx \in 1..MaxRows, mutIdx \in 1..MaxRows, v \in MutationTexts :
           setMutationText(geneIdx, mutIdx, v)
    \/ \E geneIdx \in 1..MaxRows, mutIdx \in 1..MaxRows, mu \in Range(db.mutations) :
           pickMutation(geneIdx, mutIdx, mu)
    \/ reset

SpecForm == InitForm /\ [][NextForm]_vars

----------------------------------------------------------------------------
(* generate() *)

\* the Generate button, enabled while busy.generate is false
\* (disabled={!!busy.generate}): generate() up to its return on a failed
\* validation or to its first await.  setBusyKey takes effect before the
\* next click is handled.
GenerateClick_NoBusyGuard ==
    /\ inflight < MaxInflight
    /\ report' = Null
    /\ entries' = Map(entries, FlagEntry)
    /\ cancerGeneEntries' = Map(cancerGeneEntries, FlagCancerEntry)
    /\ IF ValidationOk
       THEN /\ error' = NULL
            /\ busy' = TRUE
            /\ pc' = "preload"
            /\ validated' = ValidatedInputs
            /\ inflight' = inflight + 1
       ELSE /\ error' = ValidationMessage
            /\ UNCHANGED <<busy, pc, validated, inflight>>
    /\ UNCHANGED <<db, failing, editor, formVars, fetched, pending, recorded>>

GenerateClick ==
    /\ ~busy
    /\ inflight < MaxInflight
    /\ report' = Null
    /\ entries' = Map(entries, FlagEntry)
    /\ cancerGeneEntries' = Map(cancerGeneEntries, FlagCancerEntry)
    /\ IF ValidationOk
       THEN /\ error' = NULL
            /\ busy' = TRUE
            /\ pc' = "preload"
            /\ validated' = ValidatedInputs
            /\ inflight' = inflight + 1
       ELSE /\ error' = ValidationMessage
            /\ UNCHANGED <<busy, pc, validated, inflight>>
    /\ UNCHANGED <<db, failing, editor, formVars, fetched, pending, recorded>>

\* `await Promise.all(mutationGeneIds.map(ensureMutationsLoaded))` returns:
\* the mutations of every gene with a picked mutation are in the cache
\* already (pickMutation offers the cached rows only), so no read is issued.
\* The eight reads of the Promise.all are issued.
PreloadDone ==
    /\ pc = "preload"
    /\ pc' = "reads"
    /\ pending' = IssuedReads(validated)
    /\ UNCHANGED <<db, failing, editor, formVars, entries, cancerGeneEntries, report, error,
                   busy, validated, fetched, inflight, recorded>>

\* one of the reads in flight returns
ReadReturns(name) ==
    /\ pc = "reads"
    /\ name \in pending
    /\ pending' = pending \ {name}
    /\ UNCHANGED <<db, failing, editor, formVars, entries, cancerGeneEntries, report, error,
                   busy, pc, validated, fetched, inflight, recorded>>

\* every read in flight returns, in one step
AllReadsReturn ==
    /\ pc = "reads"
    /\ pending # {}
    /\ pending' = {}
    /\ UNCHANGED <<db, failing, editor, formVars, entries, cancerGeneEntries, report, error,
                   busy, pc, validated, fetched, inflight, recorded>>

\* the store and the form, as a generation finds them
Snapshot ==
    [db |-> db, patientAge |-> patientAge, patientSex |-> patientSex,
     cancerPositive |-> cancerPositive, cancerLinkedToGene |-> cancerLinkedToGene,
     entries |-> entries, cancerGeneEntries |-> cancerGeneEntries]

\* catch and finally of generate()
Throw_NoFinally(message) ==
    /\ error' = message
    /\ pc' = "idle"
    /\ fetched' = NoRows
    /\ inflight' = inflight - 1
    /\ UNCHANGED <<report, recorded, busy>>

Throw(message) ==
    /\ error' = message
    /\ busy' = FALSE
    /\ pc' = "idle"
    /\ fetched' = NoRows
    /\ inflight' = inflight - 1
    /\ UNCHANGED <<report, recorded>>

\* setReport(boxes) and finally of generate()
Finish(F) ==
    /\ report' = Some(BuildReport(validated, F))
    /\ busy' = FALSE
    /\ pc' = "idle"
    /\ fetched' = NoRows
    /\ inflight' = inflight - 1
    /\ recorded' = IF Len(recorded.reports) < recorded.limit
                   THEN [recorded EXCEPT !.inputs = Append(@, Snapshot),
                                         !.reports = Append(@, BuildReport(validated, F))]
                   ELSE recorded
    /\ UNCHANGED error

\* the continuation of the Promise.all of the eight reads, which runs once
\* every one of them has returned; without a group there is no further
\* await and generate() runs to its end
ReadsDone_NoJoin ==
    /\ pc = "reads"
    /\ LET F == ReadRows(validated)
       IN  IF FirstReadError(validated) # NULL
           THEN Throw(FirstReadError(validated)) /\ UNCHANGED pending
           ELSE IF groupIds(F) = {}
           THEN Finish(F) /\ UNCHANGED pending
           ELSE /\ fetched' = F
                /\ pc' = "groupLinks"
                /\ pending' = pending \cup {"recommendation_group_classes"}
                /\ UNCHANGED <<report, error, busy, inflight, recorded>>
    /\ UNCHANGED <<db, failing, editor, formVars, entries, cancerGeneEntries, validated>>

ReadsDone ==
    /\ pc = "reads"
    /\ pending = {}
    /\ LET F == ReadRows(validated)
       IN  IF FirstReadError(validated) # NULL
           THEN Throw(FirstReadError(validated)) /\ UNCHANGED pending
           ELSE IF groupIds(F) = {}
           THEN Finish(F) /\ UNCHANGED pending
           ELSE /\ fetched' = F
                /\ pc' = "groupLinks"
                /\ pending' = pending \cup {"recommendation_group_classes"}
                /\ UNCHANGED <<report, error, busy, inflight, recorded>>
    /\ UNCHANGED <<db, failing, editor, formVars, entries, cancerGeneEntries, validated>>

\* the read of recommendation_group_classes returns and generate() runs to
\* its end
GroupLinksDone ==
    /\ pc = "groupLinks"
    /\ pending' = pending \ {"recommendation_group_classes"}
    /\ IF "recommendation_group_classes" \in failing
       THEN Throw("recommendation_group_classes")
       ELSE Finish([fetched EXCEPT !.groupClassLinks = ReadGroupLinks(fetched)])
    /\ UNCHANGED <<db, failing, editor, formVars, entries, cancerGeneEntries, validated>>

\* the generator with the reads of one Promise.all returning together
Next == GenerateClick \/ PreloadDone \/ AllReadsReturn \/ ReadsDone \/ GroupLinksDone

Spec == Init /\ [][Next]_vars

\* the generator with every read returning on its own
NextReads ==
    \/ GenerateClick
    \/ PreloadDone
    \/ \E name \in Range(ReadNames) : ReadReturns(name)
    \/ ReadsDone
    \/ GroupLinksDone

InitReads == InitBlank \/ InitInvalid \/ InitFaults \/ InitEmptyAge \/ InitTwice

SpecReads == InitReads /\ [][NextReads]_vars

\* saveGroup of the editor, for a draft that differs from the stored row in
\* the text of the age_max field alone
SaveGroupAgeMax ==
    /\ pc = "idle"
    /\ \E i \in 1..Len(db.groups), t \in AgeMaxDrafts :
          db' = [db EXCEPT !.groups[i].age_max = parseOptionalInt(t)]
    /\ UNCHANGED <<failing, editor, formVars, entries, cancerGeneEntries, report, error, busy,
                   pc, validated, fetched, pending, inflight, recorded>>

\* saveCancerRec of the editor, for such a draft
SaveCancerRecAgeMax ==
    /\ pc = "idle"
    /\ \E i \in 1..Len(db.cancerRecs), t \in AgeMaxDrafts :
          db' = [db EXCEPT !.cancerRecs[i].age_max = parseOptionalInt(t)]
    /\ UNCHANGED <<failing, editor, formVars, entries, cancerGeneEntries, report, error, busy,
                   pc, validated, fetched, pending, inflight, recorded>>

\* the generator, with the editor saving age_max values between generations
NextAgeMax ==
    \/ GenerateClick
    \/ PreloadDone
    \/ AllReadsReturn
    \/ ReadsDone
    \/ GroupLinksDone
    \/ SaveGroupAgeMax
    \/ SaveCancerRecAgeMax

SpecAgeMax == InitAgeMax /\ [][NextAgeMax]_vars

\* every read of the store returns, and a continuation that can run is run
LiveSpec ==
    /\ SpecReads
    /\ WF_vars(PreloadDone)
    /\ WF_vars(\E name \in Range(ReadNames) : ReadReturns(name))
    /\ WF_vars(ReadsDone)
    /\ WF_vars(GroupLinksDone)

----------------------------------------------------------------------------
(* Properties of the report.  They are stated on the rows of the store and *)
(* on the inputs the generation was started with, not on the lookup maps   *)
(* of generate().                                                          *)

\* a generation has ended with a report
Generated == pc = "idle" /\ ~IsNull(report)

Boxes == Val(report)

MutationBoxesOfReport == {Boxes[i] : i \in {j \in 1..Len(Boxes) : ~Boxes[j].cancerOnly}}

IdsOf(rows) == {rows[i].id : i \in 1..Len(rows)}

RecIds(b) == IdsOf(b.doneRecs) \cup IdsOf(b.futureRecs)

CancerRecIds(b) == IdsOf(b.cancerDoneRecs) \cup IdsOf(b.cancerFutureRecs)

GroupsOfGene(gid) == {gr \in Range(db.groups) : gr.gene_id = gid}

CancerRecsOfGene(gid) == {k \in Range(db.cancerRecs) : k.gene_id = gid}

HasOverrideRow(mid, grid, o) == MutationGroupOverrideRow(mid, grid, o) \in Range(db.overrides)

NoOverrideRow(mid, grid) ==
    ~HasOverrideRow(mid, grid, "include") /\ ~HasOverrideRow(mid, grid, "exclude")

SharesClass(mid, grid) ==
    \E l \in Range(db.mutClassLinks) :
        l.mutation_id = mid /\ GroupClassLink(grid, l.class_id) \in Range(db.groupClassLinks)

HasManualLink(mid, grid) == MutationGroupLink(mid, grid) \in Range(db.mutGroupLinks)

AutoOrManual(mid, gr) ==
    gr.applies_to_all_classes \/ SharesClass(mid, gr.id) \/ HasManualLink(mid, gr.id)

\* the precedence rules for one mutation alone
ResolvedAlone(mid, gr) ==
    /\ ~HasOverrideRow(mid, gr.id, "exclude")
    /\ HasOverrideRow(mid, gr.id, "include") \/ AutoOrManual(mid, gr)

SexFits(dbSex) == dbSex = NULL \/ dbSex = "ANY" \/ dbSex = validated.sex

\* the box shows cancer recommendations of its gene
CancerApplies(b) ==
    /\ validated.cancerPositive = "true"
    /\ validated.cancerLinkedToGene = "true"
    /\ b.gene.id \in Range(validated.cancerGeneIds)

\* C1: for a (mutation, group) pair of one gene without an override row, the
\* group is included for the mutation exactly when the group applies to all
\* classes, or shares a class with the mutation, or is manually linked to it
\* (seen in the box of an entry with that single mutation, for a group that
\* matches the patient's sex).
C1_IncludedWithoutOverride ==
    Generated =>
        \A b \in MutationBoxesOfReport :
            Len(b.mutations) = 1 =>
                \A gr \in GroupsOfGene(b.mutations[1].gene_id) :
                    (NoOverrideRow(b.mutations[1].id, gr.id) /\ SexFits(gr.sex)) =>
                        (gr.id \in RecIds(b) <=> AutoOrManual(b.mutations[1].id, gr))

\* a single-mutation box that includes a group by class overlap only, and a
\* state where such a box leaves out a group that nothing links
C1_Witness ==
    /\ Generated
    /\ \E b \in MutationBoxesOfReport :
        /\ Len(b.mutations) = 1
        /\ \E gr \in GroupsOfGene(b.mutations[1].gene_id) :
            /\ NoOverrideRow(b.mutations[1].id, gr.id)
            /\ ~gr.applies_to_all_classes
            /\ ~HasManualLink(b.mutations[1].id, gr.id)
            /\ SharesClass(b.mutations[1].id, gr.id)
            /\ gr.id \in RecIds(b)

\* C2: a group is not included by mutations that all carry an 'exclude'
\* override for it, whatever applies_to_all_classes, the class links and the
\* manual links are.
C2_ExcludeOverrideWins ==
    Generated =>
        \A b \in MutationBoxesOfReport :
            \A gr \in Range(db.groups) :
                (\A mu \in Range(b.mutations) : HasOverrideRow(mu.id, gr.id, "exclude"))
                    => gr.id \notin RecIds(b)

\* a box whose single mutation has an 'exclude' override on a group that
\* applies to all classes and is manually linked
C2_Witness ==
    /\ Generated
    /\ \E b \in MutationBoxesOfReport :
        /\ Len(b.mutations) = 1
        /\ \E gr \in GroupsOfGene(b.gene.id) :
            /\ HasOverrideRow(b.mutations[1].id, gr.id, "exclude")
            /\ gr.applies_to_all_classes
            /\ HasManualLink(b.mutations[1].id, gr.id)
            /\ SexFits(gr.sex)
            /\ gr.id \notin RecIds(b)

\* C3: a group of the mutation's gene with an 'include' override for the
\* mutation is included, also without applies_to_all_classes, class overlap
\* or manual link (seen for a group that matches the patient's sex).
C3_IncludeOverrideIncludes ==
    Generated =>
        \A b \in MutationBoxesOfReport :
            \A mu \in Range(b.mutations) :
                \A gr \in GroupsOfGene(mu.gene_id) :
                    (/\ HasOverrideRow(mu.id, gr.id, "include")
                     /\ ~HasOverrideRow(mu.id, gr.id, "exclude")
                     /\ SexFits(gr.sex)) => gr.id \in RecIds(b)

\* a box whose single mutation includes a group by the override alone
C3_Witness ==
    /\ Generated
    /\ \E b \in MutationBoxesOfReport :
        /\ Len(b.mutations) = 1
        /\ \E gr \in GroupsOfGene(b.gene.id) :
            /\ HasOverrideRow(b.mutations[1].id, gr.id, "include")
            /\ ~AutoOrManual(b.mutations[1].id, gr)
            /\ gr.id \in RecIds(b)

\* C4: the groups of a box are the union, over the mutations of its entry,
\* of the groups each mutation includes alone (among the groups matching the
\* patient's sex); the order of the mutations does not matter and an
\* 'exclude' override of one mutation does not remove a group another
\* mutation includes.
C4_UnionOverMutations ==
    Generated =>
        \A b \in MutationBoxesOfReport :
            RecIds(b) = {gr.id : gr \in {g \in GroupsOfGene(b.gene.id) :
                            /\ SexFits(g.sex)
                            /\ \E mu \in Range(b.mutations) : ResolvedAlone(mu.id, g)}}

\* a box of two mutations: one excludes a group by override, the other one
\* includes it, and the group is in the box
C4_Witness ==
    /\ Generated
    /\ \E b \in MutationBoxesOfReport :
        /\ Len(b.mutations) = 2
        /\ \E gr \in GroupsOfGene(b.gene.id) :
            /\ HasOverrideRow(b.mutations[1].id, gr.id, "exclude")
            /\ NoOverrideRow(b.mutations[2].id, gr.id)
            /\ AutoOrManual(b.mutations[2].id, gr)
            /\ gr.id \in RecIds(b)

\* C5: every risk, group and cancer recommendation of a box has sex null,
\* 'ANY' or the patient's sex, and the sex filter removes exactly the rows of
\* the other sex: a risk of the gene, a group the mutations include, a
\* cancer recommendation of a gene whose cancer recommendations are shown,
\* is in the box exactly when its sex is null, 'ANY' or the patient's.
C5_SexFilter ==
    Generated =>
        \A i \in 1..Len(Boxes) :
            LET b == Boxes[i]
                shown == Range(b.risks) \cup Range(b.doneRecs) \cup Range(b.futureRecs)
            IN  /\ \A r \in shown : r.sex \in {NULL, "ANY", validated.sex}
                /\ \A k \in Range(b.cancerDoneRecs) \cup Range(b.cancerFutureRecs) :
                      k.sex \in {NULL, "ANY", validated.sex}
                /\ ~b.cancerOnly =>
                      /\ \A r \in Range(db.risks) :
                            r.gene_id = b.gene.id => (r \in Range(b.risks) <=> SexFits(r.sex))
                      /\ \A gr \in GroupsOfGene(b.gene.id) :
                            (\E mu \in Range(b.mutations) : ResolvedAlone(mu.id, gr))
                                => (gr.id \in RecIds(b) <=> SexFits(gr.sex))
                /\ (b.cancerOnly \/ CancerApplies(b)) =>
                      \A k \in CancerRecsOfGene(b.gene.id) :
                          k.id \in CancerRecIds(b) <=> SexFits(k.sex)

\* a report for a male patient that keeps a risk with sex 'ANY' and drops an
\* included group with sex 'F'
C5_Witness ==
    /\ Generated
    /\ validated.sex = "M"
    /\ \E b \in MutationBoxesOfReport :
        /\ \E r \in Range(b.risks) : r.sex = "ANY"
        /\ \E gr \in GroupsOfGene(b.gene.id) :
            /\ gr.sex = "F"
            /\ \E mu \in Range(b.mutations) : ResolvedAlone(mu.id, gr)
            /\ gr.id \notin RecIds(b)

\* C6: an included group matching the patient's sex is in doneRecs exactly
\* when its age_min is null or at most the patient's age, and in futureRecs
\* exactly when its age_min is not null and above the patient's age; the same
\* holds for the cancer recommendations a box shows.
C6_AgePartition ==
    Generated =>
        \A i \in 1..Len(Boxes) :
            LET b == Boxes[i]
                isDone(r) == IsNull(r.age_min) \/ Val(r.age_min) <= validated.age
                isFuture(r) == ~IsNull(r.age_min) /\ Val(r.age_min) > validated.age
            IN  /\ ~b.cancerOnly =>
                      \A gr \in GroupsOfGene(b.gene.id) :
                          (SexFits(gr.sex) /\ \E mu \in Range(b.mutations) : ResolvedAlone(mu.id, gr))
                              => /\ gr.id \in IdsOf(b.doneRecs) <=> isDone(gr)
                                 /\ gr.id \in IdsOf(b.futureRecs) <=> isFuture(gr)
                /\ (b.cancerOnly \/ CancerApplies(b)) =>
                      \A k \in CancerRecsOfGene(b.gene.id) :
                          SexFits(k.sex)
                              => /\ k.id \in IdsOf(b.cancerDoneRecs) <=> isDone(k)
                                 /\ k.id \in IdsOf(b.cancerFutureRecs) <=> isFuture(k)

\* a box with a group and a cancer recommendation whose age_min is the
\* patient's age, both done, and a cancer recommendation in the future
C6_Witness ==
    /\ Generated
    /\ \E b \in MutationBoxesOfReport :
        /\ \E gr \in Range(b.doneRecs) :
              ~IsNull(gr.age_min) /\ Val(gr.age_min) = validated.age
        /\ \E k \in Range(b.cancerDoneRecs) :
              ~IsNull(k.age_min) /\ Val(k.age_min) = validated.age
        /\ b.cancerFutureRecs # <<>>

\* C7: no two boxes of a report refer to the same gene id.
C7_NoGeneTwice ==
    Generated =>
        \A i, j \in 1..Len(Boxes) : i # j => Boxes[i].gene.id # Boxes[j].gene.id

\* C8: a gene with a mutation box has no cancer-only box, and when its
\* cancer recommendations apply, those matching the patient's sex are in its
\* mutation box.
C8_CancerMergedIntoMutationBox ==
    Generated =>
        /\ \A i, j \in 1..Len(Boxes) :
              ~(/\ Boxes[i].gene.id = Boxes[j].gene.id
                /\ ~Boxes[i].cancerOnly
                /\ Boxes[j].cancerOnly)
        /\ \A b \in MutationBoxesOfReport :
              CancerApplies(b) =>
                  \A k \in CancerRecsOfGene(b.gene.id) :
                      SexFits(k.sex) => k.id \in CancerRecIds(b)

\* a mutation box of a selected cancer-linked gene, with cancer
\* recommendations
C8_Witness ==
    /\ Generated
    /\ \E b \in MutationBoxesOfReport :
        /\ CancerApplies(b)
        /\ b.mutations # <<>>
        /\ b.cancerDoneRecs # <<>>

\* C9: for a cancer-positive patient whose cancer is linked to genes, every
\* selected cancer-linked gene that is in the store and has no mutation box
\* has exactly one box: it is cancer-only, its mutations, risks, doneRecs and
\* futureRecs are empty, and its cancer lists hold exactly the cancer
\* recommendations of the gene that match the patient's sex.
C9_CancerOnlyBox ==
    (Generated /\ validated.cancerPositive = "true" /\ validated.cancerLinkedToGene = "true") =>
        \A gid \in Range(validated.cancerGeneIds) :
            LET at == {i \in 1..Len(Boxes) : Boxes[i].gene.id = gid}
            IN  (/\ \E g \in Range(db.genes) : g.id = gid
                 /\ \A i \in at : Boxes[i].cancerOnly)
                    => /\ Cardinality(at) = 1
                       /\ \A i \in at :
                            /\ Boxes[i].cancerOnly
                            /\ Boxes[i].mutations = <<>>
                            /\ Boxes[i].risks = <<>>
                            /\ Boxes[i].doneRecs = <<>>
                            /\ Boxes[i].futureRecs = <<>>
                            /\ Range(Boxes[i].cancerDoneRecs) \cup Range(Boxes[i].cancerFutureRecs)
                                 = {k \in CancerRecsOfGene(gid) : SexFits(k.sex)}

\* a report with a mutation box of one gene and a cancer-only box, with
\* cancer recommendations, of another gene
C9_Witness ==
    /\ Generated
    /\ MutationBoxesOfReport # {}
    /\ \E i \in 1..Len(Boxes) :
        /\ Boxes[i].cancerOnly
        /\ Boxes[i].cancerDoneRecs # <<>>

\* C10: a mutation box has cancer recommendations only for a cancer-positive
\* patient whose cancer is linked to genes that include the gene of the box;
\* its cancer lists are determined by the cancer recommendations of the gene
\* and the patient's sex alone, so two boxes of one gene with different
\* mutations carry the same cancer lists.
C10_CancerListsIndependent ==
    Generated =>
        /\ \A b \in MutationBoxesOfReport :
            /\ ~CancerApplies(b) => (b.cancerDoneRecs = <<>> /\ b.cancerFutureRecs = <<>>)
            /\ CancerRecIds(b) =
                  IF CancerApplies(b)
                  THEN {k.id : k \in {c \in CancerRecsOfGene(b.gene.id) : SexFits(c.sex)}}
                  ELSE {}
        /\ \A b1, b2 \in MutationBoxesOfReport :
              b1.gene.id = b2.gene.id =>
                  /\ b1.cancerDoneRecs = b2.cancerDoneRecs
                  /\ b1.cancerFutureRecs = b2.cancerFutureRecs

\* a mutation box without any included group that carries cancer
\* recommendations
C10_Witness ==
    /\ Generated
    /\ \E b \in MutationBoxesOfReport :
        /\ b.mutations # <<>>
        /\ b.doneRecs = <<>>
        /\ b.futureRecs = <<>>
        /\ CancerRecIds(b) # {}

----------------------------------------------------------------------------
(* Validation failures *)

\* the form is one of those the validation is to refuse: the age is missing
\* or not a non-negative integer, an answer is missing, or a row that is
\* not empty has no resolved id
RefusedForm ==
    \/ patientAge.kind = "empty"
    \/ NumberOf(patientAge) < 0
    \/ patientSex = NULL
    \/ cancerPositive = NULL
    \/ cancerPositive = "true" /\ cancerLinkedToGene = NULL
    \/ CancerAsked /\ ActiveCancer = <<>>
    \/ \E i \in 1..Len(entries) :
          /\ EntryActive(entries[i])
          /\ \/ entries[i].geneId = NULL
             \/ \E j \in 1..Len(entries[i].mutations) :
                   /\ MutActive(entries[i].mutations[j])
                   /\ entries[i].mutations[j].mutationId = NULL
    \/ CancerAsked /\ \E i \in 1..Len(ActiveCancer) : ActiveCancer[i].geneId = NULL

\* a global message or a row flag is shown
ErrorRecorded ==
    \/ error # NULL
    \/ \E i \in 1..Len(entries) :
          \/ entries[i].error # NULL
          \/ \E j \in 1..Len(entries[i].mutations) : entries[i].mutations[j].error # NULL
    \/ \E i \in 1..Len(cancerGeneEntries) : cancerGeneEntries[i].error # NULL

\* C11: every step taken on a form that the validation is to refuse (age
\* missing or not a non-negative integer, sex or a cancer answer missing,
\* linked without a cancer gene, a non-empty row without a resolved id)
\* leaves the generator idle with no read issued, no report, and an error
\* recorded.
C11_RefusedFormStopsGeneration ==
    [][RefusedForm =>
          /\ pc' = "idle"
          /\ inflight' = 0
          /\ pending' = {}
          /\ report' = Null
          /\ ErrorRecorded']_vars

----------------------------------------------------------------------------
(* Read errors *)

\* the reads of the generation started with inputs v that answer with an
\* error: reads of the Promise.all, or else the read of the group-class
\* links, which is issued once the eight have succeeded with a group
FailedReads(v) ==
    LET eight == IssuedReads(v) \cap failing
    IN  IF eight # {} THEN eight
        ELSE IF groupIds(ReadRows(v)) # {}
             THEN {"recommendation_group_classes"} \cap failing
             ELSE {}

\* a generation has been started
Started == validated # NoInputs

\* C12: when a read of a generation answers with an error, no report is
\* shown at any moment of the generation, and once it has ended the error
\* shown is the error of a read that failed.
C12_ReadErrorAborts ==
    Started /\ FailedReads(validated) # {} =>
        /\ report = Null
        /\ pc = "idle" => error \in FailedReads(validated)

\* a generation with two failing reads has ended
C12_Witness ==
    /\ Started
    /\ pc = "idle"
    /\ Cardinality(FailedReads(validated)) = 2
    /\ report = Null
    /\ error \in FailedReads(validated)

----------------------------------------------------------------------------
(* The course of one generation *)

\* a step that shows a report
ShowsReport == report = Null /\ report' # Null

\* C13: the read of the group-class links is in flight only once none of
\* the eight reads of the Promise.all is, and a report is built only once
\* no read of the generation is in flight: straight after the eight when
\* they return no group, after the group-class link read otherwise.
C13_JoinBeforeResolution ==
    /\ [](pc = "groupLinks" => pending = {"recommendation_group_classes"})
    /\ [][ShowsReport =>
             /\ pending' = {}
             /\ pending \subseteq {"recommendation_group_classes"}
             /\ pc = "reads" => groupIds(ReadRows(validated)) = {}]_vars

\* a report built after the group-class link read, with every read returned
C13_Witness ==
    /\ Started
    /\ pc = "idle"
    /\ report # Null
    /\ pending = {}
    /\ Cardinality(IssuedReads(validated)) = Len(ReadNames)
    /\ groupIds(ReadRows(validated)) # {}

\* C14: at most one generate() call is in flight.
C14_AtMostOneInFlight == inflight <= 1 /\ (busy <=> inflight = 1)

\* a generation in flight, waiting for its reads
C14_Witness == inflight = 1 /\ busy /\ pc = "reads" /\ pending # {}

\* C15: a generation in flight ends, and whenever none is in flight,
\* whether the last one ended with a report, a refused form or a read
\* error, busy.generate is false and the Generate button starts one.
C15_GenerationEnds ==
    /\ (inflight > 0) ~> (inflight = 0)
    /\ [](inflight = 0 => ~busy /\ pc = "idle" /\ ENABLED GenerateClick)

\* a generation that ended with a read error has left the generator ready
C15_Witness ==
    /\ Started
    /\ inflight = 0
    /\ pc = "idle"
    /\ error \in Range(ReadNames)
    /\ ~busy

----------------------------------------------------------------------------
(* Rows deleted between selection and generation *)

\* the picked mutations of an entry that are still rows of the store
PresentMutations(e) == {id \in Range(e.mutationIds) : id \in IdsOf(db.mutations)}

\* the picked mutations of an entry that are rows of the store no more
MissingMutations(e) == Range(e.mutationIds) \ IdsOf(db.mutations)

\* the box b is the box of entry e, built from its present mutations alone
BoxOfPresent(b, e) ==
    /\ b.gene.id = e.geneId
    /\ IdsOf(b.mutations) = PresentMutations(e)
    /\ RecIds(b) = {gr.id : gr \in {x \in GroupsOfGene(e.geneId) :
                                       /\ SexFits(x.sex)
                                       /\ \E mid \in PresentMutations(e) : ResolvedAlone(mid, x)}}

\* C16: a generation whose reads succeed ends with a report and no error,
\* whether or not a picked mutation is missing from the store; every entry
\* whose gene is a row of the store has a box, whose mutations are the
\* picked mutations still in the store and whose groups are those that
\* these mutations include.
C16_MissingMutationDropped ==
    Started /\ pc = "idle" /\ FailedReads(validated) = {} =>
        /\ report # Null
        /\ error = NULL
        /\ \A e \in Range(validated.activeEntries) :
              e.geneId \in IdsOf(db.genes) =>
                  \E b \in MutationBoxesOfReport : BoxOfPresent(b, e)

\* a report for an entry with a missing mutation that a manual link ties to
\* a group of the gene: the box is there without the mutation and the group
C16_Witness ==
    /\ Generated
    /\ \E e \in Range(validated.activeEntries) :
          /\ "m2" \in MissingMutations(e)
          /\ PresentMutations(e) # {}
          /\ MutationGroupLink("m2", "gr2") \in Range(db.mutGroupLinks)
          /\ \E b \in MutationBoxesOfReport :
                /\ BoxOfPresent(b, e)
                /\ "gr2" \notin RecIds(b)

----------------------------------------------------------------------------
(* Repeated generations *)

----------------------------------------------------------------------------
(* Order of the boxes *)

\* the UTF-16 code unit of a one-letter symbol, by which the operators <
\* and <= of JavaScript compare strings
CodeUnit(sym) ==
    CASE sym = "A" -> 65
      [] sym = "B" -> 66
      [] sym = "C" -> 67
      [] sym = "a" -> 97
      [] sym = "b" -> 98
      [] sym = "c" -> 99

\* C18, as claimed: consecutive boxes of a report are in ascending order of
\* gene symbol under the ordinary comparison of strings,
\* symbol(b1) <= symbol(b2).
C18_OrdinaryStringOrder ==
    Generated =>
        \A i \in 1..(Len(Boxes) - 1) :
            CodeUnit(Boxes[i].gene.symbol) <= CodeUnit(Boxes[i + 1].gene.symbol)

\* C18, amended: consecutive boxes of a report, mutation boxes and
\* cancer-only boxes together, are in ascending order of gene symbol under
\* localeCompare: b1.symbol.localeCompare(b2.symbol) <= 0.
C18_LocaleCompareOrder ==
    Generated =>
        \A i \in 1..(Len(Boxes) - 1) :
            CollationKey(Boxes[i].gene.symbol) <= CollationKey(Boxes[i + 1].gene.symbol)

\* a report with a mutation box and a cancer-only box whose symbols the two
\* comparisons order differently
C18_Witness ==
    /\ Generated
    /\ Len(Boxes) = 2
    /\ Boxes[1].cancerOnly # Boxes[2].cancerOnly
    /\ CollationKey(Boxes[1].gene.symbol) < CollationKey(Boxes[2].gene.symbol)
    /\ CodeUnit(Boxes[1].gene.symbol) > CodeUnit(Boxes[2].gene.symbol)

----------------------------------------------------------------------------
(* Order within the lists of a box *)

\* rows with age_min = null first, then ascending age_min
NullFirstAscending(rows) ==
    \A i, j \in 1..Len(rows) :
        i < j =>
            /\ IsNull(rows[j].age_min) => IsNull(rows[i].age_min)
            /\ ~IsNull(rows[i].age_min) /\ ~IsNull(rows[j].age_min)
                   => Val(rows[i].age_min) <= Val(rows[j].age_min)

\* C19: in doneRecs and cancerDoneRecs the rows with age_min = null come
\* before the rows with an age_min, whose age_min values do not decrease;
\* in futureRecs and cancerFutureRecs the age_min values do not decrease;
\* for every integer age_min that is stored.
C19_AgeMinOrder ==
    Generated =>
        \A i \in 1..Len(Boxes) :
            /\ NullFirstAscending(Boxes[i].doneRecs)
            /\ NullFirstAscending(Boxes[i].cancerDoneRecs)
            /\ NullFirstAscending(Boxes[i].futureRecs)
            /\ NullFirstAscending(Boxes[i].cancerFutureRecs)

----------------------------------------------------------------------------
(* age_max *)

\* rows with the age_max values blanked
WithoutAgeMax(rows) == [i \in 1..Len(rows) |-> [rows[i] EXCEPT !.age_max = Null]]

\* two recorded snapshots hold the same form and the same store but for the
\* age_max values of groups and cancer recommendations
SameButAgeMax(s1, s2) ==
    [s1 EXCEPT !.db.groups = WithoutAgeMax(@), !.db.cancerRecs = WithoutAgeMax(@)]
        = [s2 EXCEPT !.db.groups = WithoutAgeMax(@), !.db.cancerRecs = WithoutAgeMax(@)]

IdSeq(rows) == [i \in 1..Len(rows) |-> rows[i].id]

\* the rows of a report: per box the gene and the ids of every list, in order
RowsOfReport(r) ==
    [k \in 1..Len(r) |->
        [gene |-> r[k].gene.id,
         mutations |-> IdSeq(r[k].mutations),
         risks |-> IdSeq(r[k].risks),
         doneRecs |-> IdSeq(r[k].doneRecs),
         futureRecs |-> IdSeq(r[k].futureRecs),
         cancerDoneRecs |-> IdSeq(r[k].cancerDoneRecs),
         cancerFutureRecs |-> IdSeq(r[k].cancerFutureRecs),
         cancerOnly |-> r[k].cancerOnly]]

\* C20: two generations whose stores differ in nothing but age_max values
\* of groups and cancer recommendations, run on the same form, have shown
\* the same rows in the same lists.
C20_AgeMaxIgnored ==
    \A i, j \in 1..Len(recorded.reports) :
        SameButAgeMax(recorded.inputs[i], recorded.inputs[j])
            => RowsOfReport(recorded.reports[i]) = RowsOfReport(recorded.reports[j])

\* the second generation ran after age_max values were saved, and shows in
\* doneRecs a group whose age_max is below the age of the patient
C20_Witness ==
    /\ Len(recorded.reports) = 2
    /\ recorded.inputs[1] # recorded.inputs[2]
    /\ SameButAgeMax(recorded.inputs[1], recorded.inputs[2])
    /\ \E k \in 1..Len(recorded.reports[2]) :
          \E n \in 1..Len(recorded.reports[2][k].doneRecs) :
              LET r == recorded.reports[2][k].doneRecs[n]
              IN  /\ ~IsNull(r.age_max)
                  /\ Val(r.age_max) < NumberOf(recorded.inputs[2].patientAge)

----------------------------------------------------------------------------
(* Editor sessions: several tabs of the editor work on one store; each has *)
(* its own picks, and the store serves the statements of the calls in      *)
(* flight in any order.  A behaviour holds at most MaxCalls calls.         *)

\* the store the editor sessions start on: one mutation of g1, the two
\* groups of g1
InitSessions ==
    /\ \E o \in {"undefined", "include", "exclude"} :
           db = [genes |-> <<G1>>, mutations |-> <<M1>>, risks |-> <<>>,
                 groups |-> <<RecGroupRow("gr1", "g1", "ANY", Null, FALSE),
                              RecGroupRow("gr2", "g1", "ANY", Null, FALSE)>>,
                 groupClassLinks |-> <<GroupClassLink("gr1", "c1")>>,
                 mutGroupLinks |-> <<MutationGroupLink("m1", "gr1")>>,
                 mutClassLinks |-> <<>>,
                 overrides |-> OverrideRows("m1", "gr1", o), cancerRecs |-> <<>>]
    /\ failing = {}
    /\ patientAge = EmptyAgeText
    /\ patientSex = NULL
    /\ cancerPositive = NULL
    /\ cancerLinkedToGene = NULL
    /\ entries = <<EmptyEntry>>
    /\ cancerGeneEntries = <<EmptyCancerEntry>>
    /\ Idle

NextSessions ==
    \/ /\ editor.started < MaxCalls
       /\ \E o \in OverrideChoice :
              SaveMutationClick(M1, [EditorClosed.picks EXCEPT
                                        !.override[<<"m1", "gr1">>] = o])
    \/ editor.started < MaxCalls /\ DeleteMutationClick(M1)
    \/ editor.started < MaxCalls /\ \E gr \in Range(db.groups) : DeleteGroupClick(gr)
    \/ \E i \in 1..MaxCalls : StatementDone(i)
    \/ \E i \in 1..MaxCalls : StatementFails(i)

SpecSessions == InitSessions /\ [][NextSessions]_vars


\* C21 (as stated): after any sequence of saveMutation, deleteMutation and
\* deleteGroup calls, two interleaved saveMutation calls on one mutation
\* included, the override table holds at most one row for each
\* (mutation_id, group_id) pair.
C21_OneOverridePerPair ==
    \A i, j \in 1..Len(db.overrides) :
        (db.overrides[i].mutation_id = db.overrides[j].mutation_id
            /\ db.overrides[i].group_id = db.overrides[j].group_id) => i = j

----------------------------------------------------------------------------
(* Groups and their classes: the add screen and saveGroup of the editor *)

\* gr1 is restricted to class c1
InitGroups ==
    /\ db = [genes |-> <<G1>>, mutations |-> <<M1>>, risks |-> <<>>,
             groups |-> <<RecGroupRow("gr1", "g1", "ANY", Null, FALSE)>>,
             groupClassLinks |-> <<GroupClassLink("gr1", "c1")>>,
             mutGroupLinks |-> <<>>, mutClassLinks |-> <<>>,
             overrides |-> <<>>, cancerRecs |-> <<>>]
    /\ failing = {}
    /\ patientAge = EmptyAgeText
    /\ patientSex = NULL
    /\ cancerPositive = NULL
    /\ cancerLinkedToGene = NULL
    /\ entries = <<EmptyEntry>>
    /\ cancerGeneEntries = <<EmptyCancerEntry>>
    /\ GeneratorIdle(0)
    \* the drafts of the groups after initGroupDraft: the rows of the store
    /\ editor = [EditorClosed EXCEPT
                    !.groupDraft =
                        [appliesAll |-> {gr.id : gr \in {x \in Range(db.groups) :
                                                            x.applies_to_all_classes}},
                         classes |-> {<<l.group_id, l.class_id>> :
                                         l \in Range(db.groupClassLinks)}]]

\* the drafts of gr1 are edited and saved; the add screen adds one group
NextGroups ==
    \/ \E gr \in Range(db.groups) : gr.id = "gr1" /\ ToggleAppliesAll(gr)
    \/ \E gr \in Range(db.groups) : gr.id = "gr1" /\ ToggleGroupClass(gr, "c1")
    \/ \E gr \in Range(db.groups) : gr.id = "gr1" /\ SaveGroupClick(gr)
    \/ \E all \in BOOLEAN, classIds \in {<<>>, <<"c1">>} :
           AddRecommendationGroupClick(all, classIds)
    \/ \E i \in 1..Len(editor.calls) : StatementDone(i)
    \/ \E i \in 1..Len(editor.calls) : StatementFails(i)

SpecGroups == InitGroups /\ [][NextGroups]_vars

\* C22 (as stated), on the store states that the calls leave: when no call
\* of the add screen or of saveGroup is in flight, a group whose
\* applies_to_all_classes flag is true has no GroupClassLink row, also
\* after a call that ended with a refused write.
C22_NoClassLinksWhenAppliesToAll ==
    editor.calls = <<>> =>
        \A gr \in Range(db.groups) :
            gr.applies_to_all_classes =>
                \A l \in Range(db.groupClassLinks) : l.group_id # gr.id

----------------------------------------------------------------------------
(* The mutation editor: one tab edits the picks of mutation m1 for group   *)
(* gr1 and class c1 and saves them.                                        *)

\* gr1 holds class c1; it applies to all classes or not
InitSave ==
    /\ \E all \in BOOLEAN, o \in {"undefined", "include", "exclude"},
          links \in {<<>>, <<MutationGroupLink("m1", "gr1")>>},
          classLinks \in {<<>>, <<MutationClassLink("m1", "c1")>>} :
           /\ db = [genes |-> <<G1>>, mutations |-> <<M1>>, risks |-> <<>>,
                    groups |-> <<RecGroupRow("gr1", "g1", "ANY", Null, all)>>,
                    groupClassLinks |-> <<GroupClassLink("gr1", "c1")>>,
                    mutGroupLinks |-> links, mutClassLinks |-> classLinks,
                    overrides |-> OverrideRows("m1", "gr1", o), cancerRecs |-> <<>>]
           /\ editor = [EditorClosed EXCEPT !.picks = PicksOfStore(db)]
    /\ failing = {}
    /\ patientAge = EmptyAgeText
    /\ patientSex = NULL
    /\ cancerPositive = NULL
    /\ cancerLinkedToGene = NULL
    /\ entries = <<EmptyEntry>>
    /\ cancerGeneEntries = <<EmptyCancerEntry>>
    /\ GeneratorIdle(0)

NextSave ==
    \/ \E gr \in Range(db.groups) : InclusionCheckboxClick(M1, gr)
    \/ \E gr \in Range(db.groups), choice \in OverrideChoice : OverrideSelect(M1, gr, choice)
    \/ MutationClassClick(M1, "c1")
    \/ ~InFlight("saveMutation", "m1") /\ SaveMutationClick(M1, editor.picks)
    \/ \E i \in 1..Len(editor.calls) : StatementDone(i)
    \/ \E i \in 1..Len(editor.calls) : StatementFails(i)

SpecSave == InitSave /\ [][NextSave]_vars

\* the last handler was the inclusion checkbox of (m1, gr1)
CheckboxClicked ==
    editor.event.kind = "checkbox" /\ editor.event.target = <<"m1", "gr1">>

\* the row of gr1
Gr1 == CHOOSE gr \in Range(db.groups) : gr.id = "gr1"

\* C23: a click on the inclusion checkbox of a pair does exactly one of:
\* (1) with an 'include' or 'exclude' override pick, the override pick
\* becomes 'default' and the manual pick stays; (2) else, with the group
\* included automatically, the override pick becomes 'exclude' on uncheck and
\* 'default' on check and the manual pick stays; (3) else the manual pick
\* becomes the new checked value and the override pick stays.  The click
\* never gives an 'include' override, and it leaves the class picks alone.
C23_CheckboxClick ==
    CheckboxClicked =>
        LET pair == <<"m1", "gr1">>
            was == editor.event.before
            now == editor.picks
            next == ~effectiveIncluded(db, was, M1, Gr1)
            manualSame == (pair \in now.manual) = (pair \in was.manual)
        IN  /\ now.classes = was.classes
            /\ now.override[pair] # "include"
            /\ \A q \in EditorPairs \ {pair} :
                  /\ now.override[q] = was.override[q]
                  /\ (q \in now.manual) = (q \in was.manual)
            /\ IF was.override[pair] \in {"include", "exclude"}
               THEN now.override[pair] = "default" /\ manualSame
               ELSE IF autoByClass(db, was, M1, Gr1)
               THEN /\ now.override[pair] = (IF next THEN "default" ELSE "exclude")
                    /\ manualSame
               ELSE /\ (pair \in now.manual) = next
                    /\ now.override[pair] = was.override[pair]

\* the three cases have happened: an override was reset beside a manual
\* pick, an automatically included group was excluded, a manual pick was set
C23_Witness ==
    /\ CheckboxClicked
    /\ editor.event.before.override[<<"m1", "gr1">>] = "include"
    /\ <<"m1", "gr1">> \in editor.picks.manual

C23_WitnessAuto ==
    /\ CheckboxClicked
    /\ editor.event.before.override[<<"m1", "gr1">>] = "default"
    /\ autoByClass(db, editor.event.before, M1, Gr1)
    /\ editor.picks.override[<<"m1", "gr1">>] = "exclude"

C23_WitnessManual ==
    /\ CheckboxClicked
    /\ editor.event.before.override[<<"m1", "gr1">>] = "default"
    /\ ~autoByClass(db, editor.event.before, M1, Gr1)
    /\ <<"m1", "gr1">> \in editor.picks.manual

\* the last handler to end was saveMutation on m1, and nothing was clicked
\* since
SaveEnded(ok) ==
    /\ editor.calls = <<>>
    /\ editor.event.kind = "ended"
    /\ editor.event.target = <<"saveMutation", "m1">>
    /\ editor.event.ok = ok

\* the rows of the store as generate() reads them for mutation m1
RowsReadForM1 ==
    [NoRows EXCEPT !.mutsRows = db.mutations, !.groupsRows = db.groups,
                   !.mutGroupLinks = db.mutGroupLinks,
                   !.mutClassLinks = db.mutClassLinks,
                   !.overrides = db.overrides,
                   !.groupClassLinks = db.groupClassLinks]

\* C28: once the picks of a mutation are saved, the generator includes a
\* group for the mutation exactly when the editor showed the pair as
\* "Effective: INCLUDED" for those picks.
C28_EffectiveIsInclusion ==
    SaveEnded(TRUE) =>
        (effectiveIncluded(db, editor.event.picks, M1, Gr1)
            <=> IncludesGroup(RowsReadForM1, M1, Gr1))

\* a save that changed the stored override of the pair into 'include', for
\* a group that neither class nor manual link includes
C28_Witness ==
    /\ SaveEnded(TRUE)
    /\ editor.event.picks.override[<<"m1", "gr1">>] = "include"
    /\ editor.event.before.overrides = <<>>
    /\ ~autoByClass(db, editor.event.picks, M1, Gr1)
    /\ <<"m1", "gr1">> \notin editor.event.picks.manual
    /\ IncludesGroup(RowsReadForM1, M1, Gr1)

\* C29 (as stated): when saveMutation ends with an error, the stored manual
\* group links, class links and overrides of the mutation are those from
\* before the call.
C29_FailedSaveKeepsLinks ==
    SaveEnded(FALSE) => LinksOfMutation(db, "m1") = editor.event.before

----------------------------------------------------------------------------
(* Deleting groups and mutations *)

\* two mutations and two groups of g1 with every kind of dependent row
InitDeletes ==
    /\ db = [genes |-> <<G1>>, mutations |-> <<M1, M2>>, risks |-> <<>>,
             groups |-> <<RecGroupRow("gr1", "g1", "ANY", Null, FALSE),
                          RecGroupRow("gr2", "g1", "ANY", Null, TRUE)>>,
             groupClassLinks |-> <<GroupClassLink("gr1", "c1")>>,
             mutGroupLinks |-> <<MutationGroupLink("m1", "gr1"), MutationGroupLink("m2", "gr2")>>,
             mutClassLinks |-> <<MutationClassLink("m1", "c1")>>,
             overrides |-> <<MutationGroupOverrideRow("m1", "gr2", "exclude"),
                             MutationGroupOverrideRow("m2", "gr1", "include")>>,
             cancerRecs |-> <<>>]
    /\ failing = {}
    /\ patientAge = EmptyAgeText
    /\ patientSex = NULL
    /\ cancerPositive = NULL
    /\ cancerLinkedToGene = NULL
    /\ entries = <<EmptyEntry>>
    /\ cancerGeneEntries = <<EmptyCancerEntry>>
    /\ GeneratorIdle(0)
    /\ editor = [EditorClosed EXCEPT !.picks = PicksOfStore(db)]

\* Delete is clicked on groups and mutations, also while other deletes are
\* in flight
NextDeletes ==
    \/ \E mu \in Range(db.mutations) : DeleteMutationClick(mu)
    \/ \E gr \in Range(db.groups) : DeleteGroupClick(gr)
    \/ \E i \in 1..Len(editor.calls) : StatementDone(i)
    \/ \E i \in 1..Len(editor.calls) : StatementFails(i)

SpecDeletes == InitDeletes /\ [][NextDeletes]_vars

StoredMutationIds == {mu.id : mu \in Range(db.mutations)}

StoredGroupIds == {gr.id : gr \in Range(db.groups)}

\* C30: while deleteGroup and deleteMutation run, and after they end with
\* or without an error, every mutation-group link, group-class link,
\* mutation-class link and override references a stored group and a stored
\* mutation: the dependent rows go before the row itself.
C30_NoDanglingReference ==
    /\ \A l \in Range(db.mutGroupLinks) :
          l.mutation_id \in StoredMutationIds /\ l.group_id \in StoredGroupIds
    /\ \A l \in Range(db.groupClassLinks) : l.group_id \in StoredGroupIds
    /\ \A l \in Range(db.mutClassLinks) : l.mutation_id \in StoredMutationIds
    /\ \A o \in Range(db.overrides) :
          o.mutation_id \in StoredMutationIds /\ o.group_id \in StoredGroupIds

\* group gr1 has been deleted, and a deleteMutation of m1 has ended with an
\* error after its first delete: m1 is stored without its class link, and
\* rows of m2 and gr2 remain
C30_Witness ==
    /\ "gr1" \notin StoredGroupIds
    /\ editor.event.kind = "ended"
    /\ editor.event.target = <<"deleteMutation", "m1">>
    /\ ~editor.event.ok
    /\ "m1" \in StoredMutationIds
    /\ db.mutClassLinks = <<>>
    /\ db.mutGroupLinks # <<>>

----------------------------------------------------------------------------
(* The gene and mutation fields of the form *)

\* the mutation rows of an entry that hold a mutation id
PickedRows(e) == {i \in 1..Len(e.mutations) : e.mutations[i].mutationId # NULL}

\* geneId (mutationId) of a row that exists before and after a step
GeneIdAt(es, idx) == es[idx].geneId

MutationIdAt(es, geneIdx, mutIdx) == es[geneIdx].mutations[mutIdx].mutationId

\* C24, the states: an entry without gene id has no mutation row with a
\* mutation id, and every mutation id of an entry is a mutation of the
\* entry's gene.
C24_MutationsBelongToGene ==
    \A idx \in 1..Len(entries) :
        LET e == entries[idx]
        IN  /\ e.geneId = NULL => PickedRows(e) = {}
            /\ \A i \in PickedRows(e) :
                  \E mu \in Range(db.mutations) :
                      mu.id = e.mutations[i].mutationId /\ mu.gene_id = e.geneId

\* C24, the steps: typing in a gene field leaves the row without gene id
\* and typing in a mutation field leaves the row without mutation id; a
\* gene id (mutation id) that was null becomes non-null by pickGene
\* (pickMutation) on that row only.
C24_TypingClearsUntilPicked ==
    [][/\ \A idx \in 1..Len(entries), v \in GeneTexts :
              setGeneText(idx, v) => GeneIdAt(entries', idx) = NULL
       /\ \A geneIdx \in 1..Len(entries), v \in MutationTexts :
              \A mutIdx \in 1..Len(entries[geneIdx].mutations) :
                  setMutationText(geneIdx, mutIdx, v)
                      => MutationIdAt(entries', geneIdx, mutIdx) = NULL
       /\ \A idx \in 1..Len(entries) :
              (idx <= Len(entries') /\ GeneIdAt(entries, idx) = NULL
                  /\ GeneIdAt(entries', idx) # NULL)
                  => \E g \in Range(db.genes) : pickGene(idx, g)
       /\ \A geneIdx \in 1..Len(entries) :
              \A mutIdx \in 1..Len(entries[geneIdx].mutations) :
                  (/\ geneIdx <= Len(entries')
                   /\ mutIdx <= Len(entries'[geneIdx].mutations)
                   /\ MutationIdAt(entries, geneIdx, mutIdx) = NULL
                   /\ MutationIdAt(entries', geneIdx, mutIdx) # NULL)
                      => \E mu \in Range(db.mutations) : pickMutation(geneIdx, mutIdx, mu)
      ]_vars

\* C24: in the generator form, after any sequence of setGeneText, pickGene,
\* setMutationText, pickMutation and reset, both of the above hold.
C24_FormKeepsMutationsOfGene ==
    []C24_MutationsBelongToGene /\ C24_TypingClearsUntilPicked

\* two rows with different genes: the first was given gene g2 after typing,
\* the second holds a picked mutation of g1
C24_Witness ==
    /\ Len(entries) = 2
    /\ entries[1].geneId = "g2" /\ PickedRows(entries[1]) = {}
    /\ entries[2].geneId = "g1" /\ PickedRows(entries[2]) # {}

----------------------------------------------------------------------------
(* Reset *)

\* the generator with the Reset button, which is enabled at all times
NextReset ==
    \/ GenerateClick
    \/ PreloadDone
    \/ AllReadsReturn
    \/ ReadsDone
    \/ GroupLinksDone
    \/ reset

SpecReset == InitReads /\ [][NextReset]_vars

\* the form is as reset() leaves it; Generate on this form is refused
\* ("Pick patient sex."), so no generation was started since
FormAsReset ==
    /\ patientAge = EmptyAgeText
    /\ patientSex = NULL
    /\ cancerPositive = NULL
    /\ cancerLinkedToGene = NULL
    /\ cancerGeneEntries = <<EmptyCancerEntry>>
    /\ entries = <<EmptyEntry>>

\* C27 (as stated): after reset() the report is null and stays null until a
\* new generation is started, also when reset() is called while a
\* generation is in flight.
C27_ReportNullAfterReset == FormAsReset => report = Null

----------------------------------------------------------------------------
(* The two lists of a mutation box *)

\* the groups of the box's gene that match the patient's sex and that a
\* mutation of the box includes
IncludedGroupsOf(b) ==
    {gr \in GroupsOfGene(b.gene.id) :
        SexFits(gr.sex) /\ \E mu \in Range(b.mutations) : ResolvedAlone(mu.id, gr)}

\* C25: in every mutation box, doneRecs and futureRecs have no group in
\* common, each group is listed once, and together they are exactly the
\* groups of the box's gene that at least one mutation of the box includes
\* and that match the patient's sex: none of these is dropped and no group
\* of another gene is listed.
C25_DoneFuturePartition ==
    Generated =>
        \A b \in MutationBoxesOfReport :
            /\ IdsOf(b.doneRecs) \cap IdsOf(b.futureRecs) = {}
            /\ Range(b.doneRecs) \cup Range(b.futureRecs) = IncludedGroupsOf(b)
            /\ Len(b.doneRecs) + Len(b.futureRecs) = Cardinality(IncludedGroupsOf(b))
            /\ \A gr \in Range(b.doneRecs) \cup Range(b.futureRecs) :
                  gr.gene_id = b.gene.id

\* a box with a group in each list, one of them at the patient's age, while
\* a group of the gene is left out and another gene has a group
C25_Witness ==
    /\ Generated
    /\ \E b \in MutationBoxesOfReport :
        /\ b.futureRecs # <<>>
        /\ \E gr \in Range(b.doneRecs) :
              ~IsNull(gr.age_min) /\ Val(gr.age_min) = validated.age
        /\ \E gr \in Range(db.groups) : gr.gene_id # b.gene.id

----------------------------------------------------------------------------
(* Validation of the gene entries *)

\* the entry has a non-empty mutation row
HasActiveMutation(e) == \E j \in 1..Len(e.mutations) : MutActive(e.mutations[j])

\* a click on Generate starts a generation only if every active gene entry
\* has a gene id, an active mutation row and a mutation id on every active
\* mutation row; the entries handed on have a gene id and mutation ids
C26_StartedOnlyIfResolved ==
    (GenerateClick /\ pc' = "preload") =>
        /\ \A i \in 1..Len(entries) :
              EntryActive(entries[i]) =>
                  /\ entries[i].geneId # NULL
                  /\ HasActiveMutation(entries[i])
                  /\ \A j \in 1..Len(entries[i].mutations) :
                        MutActive(entries[i].mutations[j])
                            => entries[i].mutations[j].mutationId # NULL
        /\ \A e \in Range(validated'.activeEntries) :
              e.geneId # NULL /\ e.mutationIds # <<>>

\* C26 (as stated): validation succeeds only if every active gene entry is
\* resolved as above, and a click on Generate with an active gene entry
\* that has no mutation starts no generation and leaves the message 'Add at
\* least 1 mutation' on the entry.
C26_NoMutationMessage ==
    [][/\ C26_StartedOnlyIfResolved
       /\ GenerateClick =>
             \A i \in 1..Len(entries) :
                 (EntryActive(entries[i]) /\ ~HasActiveMutation(entries[i])) =>
                     /\ pc' = "idle"
                     /\ entries'[i].error = "Add at least 1 mutation"]_vars

\* C26 (amended): validation succeeds only if every active gene entry is
\* resolved as above, and a click on Generate with an active gene entry
\* that has no mutation starts no generation; the entry is left with the
\* message 'Add at least 1 mutation' when it has a gene id, and with
\* 'Invalid input' when it has none.
C26_NoMutationRefused ==
    [][/\ C26_StartedOnlyIfResolved
       /\ GenerateClick =>
             \A i \in 1..Len(entries) :
                 (EntryActive(entries[i]) /\ ~HasActiveMutation(entries[i])) =>
                     /\ pc' = "idle"
                     /\ entries'[i].error =
                           (IF entries[i].geneId # NULL THEN "Add at least 1 mutation"
                            ELSE "Invalid input")]_vars

\* Generate was refused for a picked gene without mutation, which carries
\* the message
C26_Witness ==
    /\ pc = "idle"
    /\ ~Started
    /\ \E i \in 1..Len(entries) :
          /\ entries[i].geneId # NULL
          /\ ~HasActiveMutation(entries[i])
          /\ entries[i].error = "Add at least 1 mutation"

====
